---------------------------- MODULE Spec2Model ----------------------------
(***************************************************************************)
(* A model of the pause_menu UI layer: the button hit test and anchor      *)
(* resolution (src/src/ui/button), the rectangle and icon batchers         *)
(* (src/src/ui/rectangle.rs, src/src/ui/icon.rs), the game timer           *)
(* (src/src/game.rs), the ButtonManager (src/src/ui/button/mod.rs) and the *)
(* pause / upgrade menus built on it (src/src/pause_menu.rs,               *)
(* src/src/upgrade_menu.rs).                                               *)
(*                                                                         *)
(* Lengths are exact rationals held as integers in milli-pixels (Px(1) is  *)
(* one pixel); every length PureSpec draws is a multiple of 0.002 px, so   *)
(* the halvings the code does in f32 are exact here too, and in the menus  *)
(* a product with a fraction is truncated to a thousandth of a pixel.      *)
(* Time is in whole seconds of the monotonic clock.                        *)
(***************************************************************************)
EXTENDS Integers, Sequences, FiniteSets, TLC

VARIABLES
    probe,      \* PureSpec: a Button under test, a point, and the functions' results
    rr,         \* RendererSpec: a RectangleRenderer
    ir,         \* RendererSpec: an IconRenderer
    rlog,       \* RendererSpec: what the last renderer call did (history)
    timer,      \* TimerSpec: a GameTimer
    now,        \* TimerSpec: the monotonic clock, Instant::now()
    tlog,       \* TimerSpec: what the last timer call did (history)
    menu,       \* Spec, MenuRenderSpec, QuerySpec: a PauseMenu or an UpgradeMenu,
                \* with its ButtonManager
    mlog,       \* Spec, MenuRenderSpec, QuerySpec: what the last call did (history)
    texts,      \* TextSpec: a TextRenderer
    xlog,       \* TextSpec: what the last text call did (history)
    app,        \* AppSpec: the AppState, with both menus and the game state
    alog        \* AppSpec: what the last window event did (history)

pureVars  == <<probe>>
rendVars  == <<rr, ir, rlog>>
timerVars == <<timer, now, tlog>>
menuVars  == <<menu, mlog>>
textVars  == <<texts, xlog>>
appVars   == <<app, alog>>
vars      == <<probe, rr, ir, rlog, timer, now, tlog, menu, mlog, texts, xlog, app, alog>>

\* Option<T>: None, or Some(v)
None == <<>>

Some(v) == <<v>>

Px(n) == n * 1000

Half(v) == v \div 2

(***************************************************************************)
(* ButtonPosition and Button: anchor resolution and the hit test.          *)
(***************************************************************************)

\* ButtonPosition::new
ButtonPosition_new(x, y, width, height) ==
    [x |-> x, y |-> y, width |-> width, height |-> height, anchor |-> "TopLeft"]

calculate_actual_position_swapped(position) ==
    LET actual_x == IF position.anchor = "TopLeft"
                    THEN position.x - Half(position.width) ELSE position.x
        actual_y == IF position.anchor = "TopLeft"
                    THEN position.y - Half(position.height) ELSE position.y
    IN  <<actual_x, actual_y>>

\* ButtonPosition::calculate_actual_position
calculate_actual_position(position) ==
    LET actual_x == IF position.anchor = "TopLeft"
                    THEN position.x ELSE position.x - Half(position.width)
        actual_y == IF position.anchor = "TopLeft"
                    THEN position.y ELSE position.y - Half(position.height)
    IN  <<actual_x, actual_y>>

contains_point_open(button, x, y) ==
    IF ~button.visible \/ ~button.enabled
    THEN FALSE
    ELSE LET actual == calculate_actual_position(button.position)
         IN  /\ x > actual[1]
             /\ x < actual[1] + button.position.width
             /\ y > actual[2]
             /\ y < actual[2] + button.position.height

\* Button::contains_point
contains_point(button, x, y) ==
    IF ~button.visible \/ ~button.enabled
    THEN FALSE
    ELSE LET actual == calculate_actual_position(button.position)
         IN  /\ x >= actual[1]
             /\ x <= actual[1] + button.position.width
             /\ y >= actual[2]
             /\ y <= actual[2] + button.position.height

(***************************************************************************)
(* RectangleRenderer (src/src/ui/rectangle.rs).  A GPU buffer is held as   *)
(* the vertex data it was created from: per rectangle the numerators and   *)
(* denominators of the normalised device coordinates and the per-vertex    *)
(* attributes.                                                             *)
(***************************************************************************)

\* Rectangle::new
Rectangle_new(x, y, width, height, color) ==
    [x |-> x, y |-> y, width |-> width, height |-> height,
     color |-> color, corner_radius |-> 0]

\* Rectangle::with_corner_radius
with_corner_radius(rectangle, radius) ==
    [rectangle EXCEPT !.corner_radius = radius]

\* The vertex and index data RectangleRenderer::render creates: x = (x / w) * 2 - 1,
\* y = 1 - (y / h) * 2 (flipped), width = (width / w) * 2, height = -(height / h) * 2,
\* each kept as <<numerator, denominator>>.
RectangleVertices(rectangles, window_width, window_height) ==
    [i \in 1..Len(rectangles) |->
        LET r == rectangles[i] IN
        [x      |-> <<2 * r.x - window_width, window_width>>,
         y      |-> <<window_height - 2 * r.y, window_height>>,
         width  |-> <<2 * r.width, window_width>>,
         height |-> <<-(2 * r.height), window_height>>,
         color  |-> r.color,
         rect_size |-> <<r.width, r.height>>,
         corner_radius |-> r.corner_radius,
         base_index |-> (i - 1) * 4]]

\* RectangleRenderer::new
RectangleRenderer_new ==
    [rectangles |-> <<>>,
     window_width |-> Px(1360),
     window_height |-> Px(768),
     cached_vertex_buffer |-> None,
     cached_rectangle_count |-> 0]

\* RectangleRenderer::add_rectangle
add_rectangle(r, rectangle) ==
    [r EXCEPT !.rectangles = Append(@, rectangle)]

clear_rectangles_keep_cache(r) ==
    [r EXCEPT !.rectangles = <<>>]

\* RectangleRenderer::clear_rectangles
clear_rectangles(r) ==
    [r EXCEPT !.rectangles = <<>>,
              !.cached_vertex_buffer = None,
              !.cached_rectangle_count = 0]

\* RectangleRenderer::resize
RectangleRenderer_resize(r, width, height) ==
    [r EXCEPT !.window_width = width,
              !.window_height = height,
              !.cached_vertex_buffer = None,
              !.cached_rectangle_count = 0]

RectangleRenderer_render_always_rebuild(r) ==
    IF r.rectangles = <<>>
    THEN [r |-> r, drew |-> FALSE, rebuilt |-> FALSE, drawn |-> None, index_count |-> 0]
    ELSE LET built == Some(RectangleVertices(r.rectangles, r.window_width, r.window_height))
             r2 == [r EXCEPT !.cached_vertex_buffer = built,
                             !.cached_rectangle_count = Len(r.rectangles)]
         IN  [r |-> r2, drew |-> TRUE, rebuilt |-> TRUE, drawn |-> built,
              index_count |-> Len(r.rectangles) * 6]

\* RectangleRenderer::render: the renderer afterwards, whether draw_indexed was
\* called, whether the buffers were created anew, and the buffer drawn from.
RectangleRenderer_render(r) ==
    IF r.rectangles = <<>>
    THEN [r |-> r, drew |-> FALSE, rebuilt |-> FALSE, drawn |-> None, index_count |-> 0]
    ELSE LET need_new_buffers == r.cached_rectangle_count # Len(r.rectangles)
             r2 == IF need_new_buffers
                   THEN [r EXCEPT
                           !.cached_vertex_buffer =
                               Some(RectangleVertices(r.rectangles, r.window_width,
                                                      r.window_height)),
                           !.cached_rectangle_count = Len(r.rectangles)]
                   ELSE r
         IN  [r |-> r2,
              drew |-> r2.cached_vertex_buffer # None,
              rebuilt |-> need_new_buffers,
              drawn |-> r2.cached_vertex_buffer,
              index_count |-> Len(r.rectangles) * 6]

(***************************************************************************)
(* IconRenderer (src/src/ui/icon.rs): one vertex buffer per texture group. *)
(***************************************************************************)

TextureIds == {"blank_icon", "other_icon"}

\* Icon::new
Icon_new(x, y, width, height, texture_id) ==
    [x |-> x, y |-> y, width |-> width, height |-> height, texture_id |-> texture_id]

\* The icons of one texture, in queue order (icons_by_texture in IconRenderer::render)
IconsOfTexture(icons, texture_id) ==
    SelectSeq(icons, LAMBDA icon : icon.texture_id = texture_id)

\* The vertex data IconRenderer::render creates for one texture group:
\* x = (x / w) * 2 - 1, y = (y / h) * 2 - 1 (no flip).
IconVertices(icons, window_width, window_height) ==
    [i \in 1..Len(icons) |->
        LET icon == icons[i] IN
        [x      |-> <<2 * icon.x - window_width, window_width>>,
         y      |-> <<2 * icon.y - window_height, window_height>>,
         width  |-> <<2 * icon.width, window_width>>,
         height |-> <<2 * icon.height, window_height>>,
         base_index |-> (i - 1) * 4]]

\* IconRenderer::new, with the textures that load_texture has stored
IconRenderer_new(textures) ==
    [icons |-> <<>>,
     textures |-> textures,
     window_width |-> Px(1360),
     window_height |-> Px(768),
     cached_vertex_buffers |-> [t \in TextureIds |-> None],
     cached_icon_counts |-> [t \in TextureIds |-> None]]

\* IconRenderer::load_texture, when the image file is read
load_texture(r, texture_id) ==
    [r EXCEPT !.textures = @ \cup {texture_id}]

\* IconRenderer::add_icon
add_icon(r, icon) ==
    [r EXCEPT !.icons = Append(@, icon)]

\* IconRenderer::clear_icons
clear_icons(r) ==
    [r EXCEPT !.icons = <<>>,
              !.cached_vertex_buffers = [t \in TextureIds |-> None],
              !.cached_icon_counts = [t \in TextureIds |-> None]]

\* IconRenderer::resize
IconRenderer_resize(r, width, height) ==
    [r EXCEPT !.window_width = width,
              !.window_height = height,
              !.cached_vertex_buffers = [t \in TextureIds |-> None],
              !.cached_icon_counts = [t \in TextureIds |-> None]]

\* cached_icon_counts.get(&texture_id).unwrap_or(&0)
CachedIconCount(r, t) ==
    IF r.cached_icon_counts[t] = None THEN 0 ELSE r.cached_icon_counts[t][1]

\* IconRenderer::render: the renderer afterwards, the textures whose buffers were
\* created anew and the draw calls made (one per texture group with a texture).
\* The groups are independent, so the HashMap's iteration order only orders the draws.
IconRenderer_render(r) ==
    IF r.icons = <<>>
    THEN [r |-> r, rebuilt |-> {}, draws |-> {}]
    ELSE LET groups == {t \in TextureIds :
                           /\ IconsOfTexture(r.icons, t) # <<>>
                           /\ t \in r.textures}
             need_new(t) == CachedIconCount(r, t) # Len(IconsOfTexture(r.icons, t))
             built(t) == Some(IconVertices(IconsOfTexture(r.icons, t),
                                           r.window_width, r.window_height))
             r2 == [r EXCEPT
                      !.cached_vertex_buffers =
                          [t \in TextureIds |->
                              IF t \in groups /\ need_new(t) THEN built(t) ELSE @[t]],
                      !.cached_icon_counts =
                          [t \in TextureIds |->
                              IF t \in groups /\ need_new(t)
                              THEN Some(Len(IconsOfTexture(r.icons, t))) ELSE @[t]]]
         IN  [r |-> r2,
              rebuilt |-> {t \in groups : need_new(t)},
              draws |-> {[texture_id |-> t,
                          buffer |-> r2.cached_vertex_buffers[t],
                          index_count |-> Len(IconsOfTexture(r.icons, t)) * 6] :
                         t \in {g \in groups : r2.cached_vertex_buffers[g] # None}}]

(***************************************************************************)
(* GameTimer (src/src/game.rs).  Instants and Durations are whole seconds. *)
(***************************************************************************)

\* TimerConfig::default().duration, in seconds
DefaultDuration == 60

\* GameTimer::new at clock reading t
GameTimer_new(t) ==
    [start_time |-> t,
     duration |-> DefaultDuration,
     is_running |-> FALSE,
     is_expired |-> FALSE,
     paused_at |-> None,
     elapsed_paused |-> 0]

\* GameTimer::start at clock reading t
GameTimer_start(tm, t) ==
    [tm EXCEPT !.start_time = t,
               !.is_running = TRUE,
               !.is_expired = FALSE,
               !.paused_at = None,
               !.elapsed_paused = 0]

\* GameTimer::pause at clock reading t
GameTimer_pause(tm, t) ==
    IF tm.is_running /\ tm.paused_at = None
    THEN [tm EXCEPT !.paused_at = Some(t)]
    ELSE tm

GameTimer_resume_forgets_pause(tm, t) ==
    IF tm.paused_at # None
    THEN [tm EXCEPT !.paused_at = None]
    ELSE tm

\* GameTimer::resume at clock reading t: paused_at.elapsed() is t - paused_at
GameTimer_resume(tm, t) ==
    IF tm.paused_at # None
    THEN [tm EXCEPT !.paused_at = None,
                    !.elapsed_paused = @ + (t - tm.paused_at[1])]
    ELSE tm

\* GameTimer::stop
GameTimer_stop(tm) ==
    [tm EXCEPT !.is_running = FALSE]

\* A reset that keeps the paused time accumulated so far
GameTimer_reset_keeps(tm, t) ==
    [tm EXCEPT !.start_time = t,
               !.is_expired = FALSE,
               !.paused_at = None]

\* GameTimer::reset at clock reading t
GameTimer_reset(tm, t) ==
    [tm EXCEPT !.start_time = t,
               !.is_expired = FALSE,
               !.paused_at = None,
               !.elapsed_paused = 0]

\* The elapsed time get_remaining_time computes: (paused_at or now) - start_time
\* - elapsed_paused.  The Duration subtraction panics when this is negative.
TimerElapsed(tm, t) ==
    IF tm.paused_at # None
    THEN (tm.paused_at[1] - tm.start_time) - tm.elapsed_paused
    ELSE (t - tm.start_time) - tm.elapsed_paused

\* GameTimer::get_remaining_time at clock reading t:
\* duration.checked_sub(elapsed).unwrap_or(ZERO)
get_remaining_time(tm, t) ==
    IF ~tm.is_running \/ tm.is_expired
    THEN 0
    ELSE IF TimerElapsed(tm, t) > tm.duration
         THEN 0
         ELSE tm.duration - TimerElapsed(tm, t)

\* GameTimer::is_expired
GameTimer_is_expired(tm, t) ==
    tm.is_expired \/ (~tm.is_running /\ get_remaining_time(tm, t) = 0)

\* An update that reports the expiry on every call once the time is up
GameTimer_update_repeats(tm, t) ==
    IF ~tm.is_running \/ tm.paused_at # None
    THEN [tm |-> tm, ret |-> FALSE]
    ELSE [tm |-> [tm EXCEPT !.is_expired = (get_remaining_time(tm, t) = 0)],
          ret |-> get_remaining_time(tm, t) = 0]

\* GameTimer::update at clock reading t: the timer afterwards and the value returned
GameTimer_update(tm, t) ==
    IF ~tm.is_running \/ tm.paused_at # None
    THEN [tm |-> tm, ret |-> FALSE]
    ELSE LET remaining == get_remaining_time(tm, t)
             was_expired == tm.is_expired
             tm2 == [tm EXCEPT !.is_expired = (remaining = 0)]
         IN  [tm |-> tm2, ret |-> ~was_expired /\ tm2.is_expired]

(***************************************************************************)
(* PureSpec: the hit test and the anchor resolution applied once to a      *)
(* button and a point drawn from a grid that puts points before, on and    *)
(* after every edge.                                                       *)
(***************************************************************************)

MaxCoord == 2

\* Origins and sizes: even numbers of pixels, so that width / 2 is a whole pixel
PureOrigins == {Px(2) * k : k \in -1..MaxCoord}

PureSizes == {Px(2) * k : k \in 0..MaxCoord}

\* Points: every whole pixel from before the least edge to after the greatest one
PurePoints == {Px(1) * k : k \in -(MaxCoord + 3)..(4 * MaxCoord + 1)}

PureInit ==
    /\ \E anchor \in {"TopLeft", "Center"}, x \in PureOrigins, y \in PureOrigins,
          width \in PureSizes, height \in PureSizes,
          visible \in BOOLEAN, enabled \in BOOLEAN,
          px \in PurePoints, py \in PurePoints :
            probe = [button |-> [position |-> [ButtonPosition_new(x, y, width, height)
                                                  EXCEPT !.anchor = anchor],
                                 visible |-> visible,
                                 enabled |-> enabled],
                     x |-> px, y |-> py, actual |-> None, hit |-> None]
    /\ rr = None /\ ir = None /\ rlog = None
    /\ timer = None /\ now = 0 /\ tlog = None
    /\ menu = None /\ mlog = None
    /\ texts = None /\ xlog = None
    /\ app = None /\ alog = None

\* Call calculate_actual_position and contains_point on the probe
Evaluate ==
    /\ probe.actual = None
    /\ probe' = [probe EXCEPT
                   !.actual = Some(calculate_actual_position(probe.button.position)),
                   !.hit = Some(contains_point(probe.button, probe.x, probe.y))]
    /\ UNCHANGED <<rendVars, timerVars, menuVars, textVars, appVars>>

PureNext == Evaluate

PureSpec == PureInit /\ [][PureNext]_vars

\* C5: contains_point is false for every point when the button is invisible or
\* disabled, whatever its geometry and anchor; otherwise it is true exactly for the
\* points of the closed rectangle [ox, ox + width] x [oy, oy + height], where
\* (ox, oy) is (x, y) for TopLeft and (x - width/2, y - height/2) for Center.
\* Stated on doubled coordinates, so that no halving is involved.
C5_ContainsPoint ==
    probe.hit # None =>
        LET b == probe.button
            p == b.position
            ox2 == IF p.anchor = "Center" THEN 2 * p.x - p.width ELSE 2 * p.x
            oy2 == IF p.anchor = "Center" THEN 2 * p.y - p.height ELSE 2 * p.y
            inside == /\ ox2 <= 2 * probe.x /\ 2 * probe.x <= ox2 + 2 * p.width
                      /\ oy2 <= 2 * probe.y /\ 2 * probe.y <= oy2 + 2 * p.height
        IN  probe.hit[1] = (b.visible /\ b.enabled /\ inside)

\* A Center-anchored, visible, enabled button hit exactly on its right and bottom edge
C5_Witness ==
    /\ probe.hit = Some(TRUE)
    /\ probe.button.position.anchor = "Center"
    /\ probe.button.position.width > 0
    /\ 2 * probe.x = 2 * probe.button.position.x + probe.button.position.width
    /\ 2 * probe.y = 2 * probe.button.position.y + probe.button.position.height

\* C6: calculate_actual_position is (x, y) for TopLeft and
\* (x - width/2, y - height/2) for Center.
C6_ActualPosition ==
    probe.actual # None =>
        LET p == probe.button.position
            a == probe.actual[1]
        IN  IF p.anchor = "TopLeft"
            THEN a = <<p.x, p.y>>
            ELSE /\ 2 * a[1] = 2 * p.x - p.width
                 /\ 2 * a[2] = 2 * p.y - p.height

\* A Center anchor whose resolved origin differs from (x, y) in both coordinates
C6_Witness ==
    /\ probe.actual # None
    /\ probe.button.position.anchor = "Center"
    /\ probe.actual[1][1] < probe.button.position.x
    /\ probe.actual[1][2] < probe.button.position.y

(***************************************************************************)
(* RendererSpec: a RectangleRenderer and an IconRenderer driven through    *)
(* their public calls in any order.  rlog is history: for each renderer    *)
(* the last call and the one before it, what the last render did, and      *)
(* whether clear / resize was called since the last render that had        *)
(* elements.                                                               *)
(***************************************************************************)

MaxRects == 2

MaxIcons == 2

\* Colours are RGBA in 255ths
RectPool ==
    {Rectangle_new(Px(0), Px(0), Px(100), Px(50), <<255, 0, 0, 255>>),
     with_corner_radius(Rectangle_new(Px(40), Px(20), Px(200), Px(100), <<0, 0, 255, 128>>),
                        Px(8))}

IconPool ==
    {Icon_new(Px(10), Px(10), Px(32), Px(32), "blank_icon"),
     Icon_new(Px(50), Px(10), Px(64), Px(64), "blank_icon"),
     Icon_new(Px(10), Px(90), Px(32), Px(32), "other_icon")}

RenderSizes == {<<Px(1360), Px(768)>>, <<Px(1920), Px(1080)>>}

RectLog0 ==
    [op |-> "new", after_render |-> FALSE, drew |-> FALSE, rebuilt |-> FALSE,
     drawn |-> None, prev_drawn |-> None, dirty |-> FALSE, dirty_before |-> FALSE,
     dropped |-> FALSE]

IconLog0 ==
    [op |-> "new", rebuilt |-> {}, draws |-> {},
     dirty |-> FALSE, dirty_before |-> FALSE]

RendererInit ==
    /\ rr = RectangleRenderer_new
    /\ ir = IconRenderer_new({})
    /\ rlog = [rect |-> RectLog0, icon |-> IconLog0]
    /\ probe = None
    /\ timer = None /\ now = 0 /\ tlog = None
    /\ menu = None /\ mlog = None
    /\ texts = None /\ xlog = None
    /\ app = None /\ alog = None

\* The rectangle log after a call other than render
RectStep(op) ==
    [RectLog0 EXCEPT !.op = op, !.dirty = rlog.rect.dirty, !.dropped = rlog.rect.dropped]

\* The icon log after a call other than render
IconStep(op) ==
    [IconLog0 EXCEPT !.op = op, !.dirty = rlog.icon.dirty]

AddRectangle ==
    /\ Len(rr.rectangles) < MaxRects
    /\ \E rectangle \in RectPool : rr' = add_rectangle(rr, rectangle)
    /\ rlog' = [rlog EXCEPT !.rect = RectStep("add_rectangle")]
    /\ UNCHANGED <<ir, pureVars, timerVars, menuVars, textVars, appVars>>

ClearRectangles ==
    /\ rr' = clear_rectangles(rr)
    /\ rlog' = [rlog EXCEPT !.rect = [RectStep("clear_rectangles") EXCEPT
                                        !.dirty = TRUE,
                                        !.dropped = (rr.cached_vertex_buffer # None)]]
    /\ UNCHANGED <<ir, pureVars, timerVars, menuVars, textVars, appVars>>

ResizeRectangles ==
    /\ \E size \in RenderSizes : rr' = RectangleRenderer_resize(rr, size[1], size[2])
    /\ rlog' = [rlog EXCEPT !.rect = [RectStep("resize") EXCEPT
                                        !.dirty = TRUE,
                                        !.dropped = (rr.cached_vertex_buffer # None)]]
    /\ UNCHANGED <<ir, pureVars, timerVars, menuVars, textVars, appVars>>

RenderRectangles ==
    LET res == RectangleRenderer_render(rr) IN
    /\ rr' = res.r
    /\ rlog' = [rlog EXCEPT !.rect =
                    [op |-> "render",
                     after_render |-> (rlog.rect.op = "render"),
                     drew |-> res.drew,
                     rebuilt |-> res.rebuilt,
                     drawn |-> res.drawn,
                     prev_drawn |-> rlog.rect.drawn,
                     dirty_before |-> rlog.rect.dirty,
                     dirty |-> IF rr.rectangles = <<>> THEN rlog.rect.dirty ELSE FALSE,
                     dropped |-> rlog.rect.dropped]]
    /\ UNCHANGED <<ir, pureVars, timerVars, menuVars, textVars, appVars>>

LoadTexture ==
    /\ \E texture_id \in TextureIds : ir' = load_texture(ir, texture_id)
    /\ rlog' = [rlog EXCEPT !.icon = IconStep("load_texture")]
    /\ UNCHANGED <<rr, pureVars, timerVars, menuVars, textVars, appVars>>

AddIcon ==
    /\ Len(ir.icons) < MaxIcons
    /\ \E icon \in IconPool : ir' = add_icon(ir, icon)
    /\ rlog' = [rlog EXCEPT !.icon = IconStep("add_icon")]
    /\ UNCHANGED <<rr, pureVars, timerVars, menuVars, textVars, appVars>>

ClearIcons ==
    /\ ir' = clear_icons(ir)
    /\ rlog' = [rlog EXCEPT !.icon = [IconStep("clear_icons") EXCEPT !.dirty = TRUE]]
    /\ UNCHANGED <<rr, pureVars, timerVars, menuVars, textVars, appVars>>

ResizeIcons ==
    /\ \E size \in RenderSizes : ir' = IconRenderer_resize(ir, size[1], size[2])
    /\ rlog' = [rlog EXCEPT !.icon = [IconStep("resize") EXCEPT !.dirty = TRUE]]
    /\ UNCHANGED <<rr, pureVars, timerVars, menuVars, textVars, appVars>>

RenderIcons ==
    LET res == IconRenderer_render(ir) IN
    /\ ir' = res.r
    /\ rlog' = [rlog EXCEPT !.icon = [op |-> "render",
                                      rebuilt |-> res.rebuilt,
                                      draws |-> res.draws,
                                      dirty_before |-> rlog.icon.dirty,
                                      dirty |-> IF ir.icons = <<>>
                                                THEN rlog.icon.dirty ELSE FALSE]]
    /\ UNCHANGED <<rr, pureVars, timerVars, menuVars, textVars, appVars>>

RendererNext ==
    \/ AddRectangle \/ ClearRectangles \/ ResizeRectangles \/ RenderRectangles
    \/ LoadTexture \/ AddIcon \/ ClearIcons \/ ResizeIcons \/ RenderIcons

RendererSpec == RendererInit /\ [][RendererNext]_vars

\* The texture groups IconRenderer::render draws: those with an icon queued and a
\* texture loaded
DrawableGroups == {t \in TextureIds : IconsOfTexture(ir.icons, t) # <<>> /\ t \in ir.textures}

\* C7: the geometry cache never serves stale data.  Whenever a render draws, the buffer
\* it draws from holds the vertices of exactly the current queue under the current
\* window size; a cache whose count matches the queue is that buffer; and the first
\* render with elements after a clear or resize builds the buffer anew -- for the
\* IconRenderer, the buffer of every texture group whose texture is loaded (a group
\* whose texture was never loaded is skipped: nothing is built or drawn for it).
C7_CacheNeverStale ==
    /\ (rlog.rect.op = "render" /\ rlog.rect.drew) =>
          rlog.rect.drawn = Some(RectangleVertices(rr.rectangles, rr.window_width,
                                                   rr.window_height))
    /\ (rr.rectangles # <<>> /\ rr.cached_rectangle_count = Len(rr.rectangles)) =>
          rr.cached_vertex_buffer = Some(RectangleVertices(rr.rectangles, rr.window_width,
                                                           rr.window_height))
    /\ (rlog.rect.op = "render" /\ rlog.rect.dirty_before /\ rr.rectangles # <<>>) =>
          rlog.rect.rebuilt
    /\ rlog.icon.op = "render" =>
          /\ {d.texture_id : d \in rlog.icon.draws} = DrawableGroups
          /\ \A d \in rlog.icon.draws :
                d.buffer = Some(IconVertices(IconsOfTexture(ir.icons, d.texture_id),
                                             ir.window_width, ir.window_height))
          /\ rlog.icon.dirty_before => rlog.icon.rebuilt = DrawableGroups

\* A render that rebuilt a non-empty rectangle batch after a clear or resize had dropped
\* an earlier buffer, and an icon render that rebuilt a group after a clear or resize
C7_Witness ==
    /\ rlog.rect.op = "render" /\ rlog.rect.dirty_before /\ rlog.rect.dropped
    /\ rlog.rect.rebuilt /\ rlog.rect.drew /\ Len(rr.rectangles) = MaxRects
    /\ rlog.icon.op = "render" /\ rlog.icon.dirty_before
    /\ rlog.icon.rebuilt # {} /\ rlog.icon.draws # {}

\* C7 as worded: after a clear or resize, the next render with at least one element
\* queued performs a rebuild, in the IconRenderer too.
C7_AsWorded ==
    (rlog.icon.op = "render" /\ rlog.icon.dirty_before /\ ir.icons # <<>>) =>
        rlog.icon.rebuilt # {}

\* C8: of two consecutive RectangleRenderer::render calls on a non-empty queue, with no
\* add_rectangle, clear_rectangles or resize between them, the second creates no
\* buffer: the cached count equals the queue length and it draws from the buffer the
\* first one drew from.
C8_SecondRenderReuses ==
    (rlog.rect.op = "render" /\ rlog.rect.after_render /\ rr.rectangles # <<>>) =>
        /\ ~rlog.rect.rebuilt
        /\ rlog.rect.drew
        /\ rlog.rect.drawn = rlog.rect.prev_drawn
        /\ rr.cached_rectangle_count = Len(rr.rectangles)

\* Two renders in a row on a full queue
C8_Witness ==
    /\ rlog.rect.op = "render" /\ rlog.rect.after_render
    /\ Len(rr.rectangles) = MaxRects
    /\ rlog.rect.drew /\ ~rlog.rect.rebuilt

(***************************************************************************)
(* TimerSpec: a GameTimer driven through its public calls while the clock  *)
(* advances.  tlog is history: the last call, the remaining time before    *)
(* it, whether the timer was paused before it, the value update returned,  *)
(* and the clock time that has passed outside a pause since the last       *)
(* start or reset.                                                         *)
(***************************************************************************)

MaxNow == 80

ClockSteps == {5, 10}

TimerInit ==
    /\ timer = GameTimer_new(0)
    /\ now = 0
    /\ tlog = [op |-> "new", rem_before |-> 0, was_paused |-> FALSE, ret |-> FALSE,
               active |-> 0]
    /\ probe = None
    /\ rr = None /\ ir = None /\ rlog = None
    /\ menu = None /\ mlog = None
    /\ texts = None /\ xlog = None
    /\ app = None /\ alog = None

TimerStep(op) ==
    [tlog EXCEPT !.op = op,
                 !.rem_before = get_remaining_time(timer, now),
                 !.was_paused = (timer.paused_at # None),
                 !.ret = FALSE]

Start ==
    /\ timer' = GameTimer_start(timer, now)
    /\ tlog' = [TimerStep("start") EXCEPT !.active = 0]
    /\ UNCHANGED <<now, pureVars, rendVars, menuVars, textVars, appVars>>

Pause ==
    /\ timer' = GameTimer_pause(timer, now)
    /\ tlog' = TimerStep("pause")
    /\ UNCHANGED <<now, pureVars, rendVars, menuVars, textVars, appVars>>

Resume ==
    /\ timer' = GameTimer_resume(timer, now)
    /\ tlog' = TimerStep("resume")
    /\ UNCHANGED <<now, pureVars, rendVars, menuVars, textVars, appVars>>

Stop ==
    /\ timer' = GameTimer_stop(timer)
    /\ tlog' = TimerStep("stop")
    /\ UNCHANGED <<now, pureVars, rendVars, menuVars, textVars, appVars>>

Reset ==
    /\ timer' = GameTimer_reset(timer, now)
    /\ tlog' = [TimerStep("reset") EXCEPT !.active = 0]
    /\ UNCHANGED <<now, pureVars, rendVars, menuVars, textVars, appVars>>

Update ==
    LET res == GameTimer_update(timer, now) IN
    /\ timer' = res.tm
    /\ tlog' = [TimerStep("update") EXCEPT !.ret = res.ret]
    /\ UNCHANGED <<now, pureVars, rendVars, menuVars, textVars, appVars>>

\* The monotonic clock advances
Tick ==
    /\ \E d \in ClockSteps :
          /\ now + d <= MaxNow
          /\ now' = now + d
          /\ tlog' = [TimerStep("tick") EXCEPT
                        !.active = IF timer.paused_at = None THEN @ + d ELSE @]
    /\ UNCHANGED <<timer, pureVars, rendVars, menuVars, textVars, appVars>>

TimerNext == Start \/ Pause \/ Resume \/ Stop \/ Reset \/ Update \/ Tick

TimerSpec == TimerInit /\ [][TimerNext]_vars

\* C9: paused intervals are excluded from the elapsed time.  While the timer is paused
\* the remaining time does not change as the clock advances; resume() leaves it at the
\* value it had while paused; and a running, unexpired timer always reads the duration
\* less the clock time that passed outside pauses since it was started (never below
\* zero), however many pause / resume cycles there were.
C9_PausedTimeExcluded ==
    /\ (tlog.op = "tick" /\ tlog.was_paused) =>
          get_remaining_time(timer, now) = tlog.rem_before
    /\ (tlog.op = "resume" /\ tlog.was_paused) =>
          get_remaining_time(timer, now) = tlog.rem_before
    /\ (timer.is_running /\ ~timer.is_expired) =>
          get_remaining_time(timer, now) =
              IF tlog.active > timer.duration THEN 0 ELSE timer.duration - tlog.active

\* The scenario: 60 s timer, paused after 10 s, resumed 5 s later, reads 50 s
C9_Witness ==
    /\ tlog.op = "resume" /\ tlog.was_paused
    /\ timer.is_running /\ timer.duration = 60
    /\ now - timer.start_time = 15
    /\ timer.elapsed_paused = 5
    /\ get_remaining_time(timer, now) = 50

(***************************************************************************)
(* Colours, styles and the text renderer state the ButtonManager drives.   *)
(* A Color is <<r, g, b, a>> with u8 channels.  An f32 factor or           *)
(* proportion is an exact fraction <<numerator, denominator>>; a length    *)
(* times a fraction is truncated to a thousandth of a pixel.               *)
(***************************************************************************)

Times(v, ratio) == (v * ratio[1]) \div ratio[2]

RECURSIVE GCD(_, _)
GCD(a, b) == IF b = 0 THEN a ELSE GCD(b, a % b)

\* The fraction n / d in lowest terms (d > 0, n >= 0)
Ratio(n, d) == <<n \div GCD(n, d), d \div GCD(n, d)>>

Clamp(v, lo, hi) == IF v < lo THEN lo ELSE IF v > hi THEN hi ELSE v

Min2(a, b) == IF a <= b THEN a ELSE b

Max2(a, b) == IF a >= b THEN a ELSE b

rgb(r, g, b) == <<r, g, b, 255>>

\* ColorExt::darken, factor in hundredths: (channel * (1 - factor)) as u8
darken(color, factor) ==
    LET f == Clamp(factor, 0, 100)
        ch(v) == (v * (100 - f)) \div 100
    IN  <<ch(color[1]), ch(color[2]), ch(color[3]), color[4]>>

\* ColorExt::brighten, factor in hundredths: (channel + (255 - channel) * factor) as u8
brighten(color, factor) ==
    LET f == Clamp(factor, 0, 100)
        ch(v) == (100 * v + (255 - v) * f) \div 100
    IN  <<ch(color[1]), ch(color[2]), ch(color[3]), color[4]>>

\* ColorExt::saturate, factor in hundredths.  With channels in 255ths, max + min = G
\* and max - min = d: l = G / 510, s = d / (255 - |G - 255|), then s + factor capped
\* at 1 is sn / sd, and a channel v becomes l + (v - l) * (1 + s), clamped to [0, 1]
\* and truncated to u8.
saturate(color, factor) ==
    LET mx == Max2(Max2(color[1], color[2]), color[3])
        mn == Min2(Min2(color[1], color[2]), color[3])
        G == mx + mn
        d == mx - mn
        b == 255 - (IF G >= 255 THEN G - 255 ELSE 255 - G)
        sd == IF d = 0 THEN 100 ELSE 100 * b
        sn == Min2(IF d = 0 THEN factor ELSE 100 * d + factor * b, sd)
        ch(v) == LET num == G * sd + (2 * v - G) * (sd + sn)
                 IN  IF num <= 0 THEN 0
                     ELSE IF num >= 510 * sd THEN 255 ELSE num \div (2 * sd)
    IN  <<ch(color[1]), ch(color[2]), ch(color[3]), color[4]>>

\* dpi_scale: (window_height / 1080.0).clamp(0.7, 2.0), as a fraction
dpi_scale(window_height) ==
    IF 10 * window_height < 7 * Px(1080) THEN <<7, 10>>
    ELSE IF window_height > 2 * Px(1080) THEN <<2, 1>>
    ELSE Ratio(window_height, Px(1080))

\* ButtonSpacing
Wrap == [kind |-> "Wrap", prop |-> <<0, 1>>]

Hbar(prop) == [kind |-> "Hbar", prop |-> prop]

Tall(prop) == [kind |-> "Tall", prop |-> prop]

\* The text_style of the three style constructors: 18.0 * scale, 20.0 * scale with
\* scale = dpi_scale(1080.0)
DefaultButtonTextStyle ==
    [font_family |-> "HankenGrotesk",
     font_size |-> Times(Px(18), dpi_scale(Px(1080))),
     line_height |-> Times(Px(20), dpi_scale(Px(1080))),
     color |-> rgb(255, 255, 255),
     weight |-> "MEDIUM",
     style |-> "Normal"]

\* create_primary_button_style
create_primary_button_style ==
    [background_color |-> rgb(30, 110, 30),
     hover_color |-> rgb(25, 85, 25),
     pressed_color |-> rgb(20, 65, 20),
     disabled_color |-> rgb(110, 140, 110),
     border_color |-> rgb(25, 85, 25),
     border_width |-> Px(1),
     corner_radius |-> Px(8),
     padding |-> <<Px(16), Px(10)>>,
     text_style |-> DefaultButtonTextStyle,
     text_align |-> "Center",
     spacing |-> Hbar(<<3, 10>>)]

\* create_warning_button_style
create_warning_button_style ==
    [create_primary_button_style EXCEPT
        !.background_color = rgb(170, 100, 10),
        !.hover_color = rgb(140, 80, 5),
        !.pressed_color = rgb(110, 60, 0),
        !.disabled_color = rgb(160, 140, 115),
        !.border_color = rgb(140, 80, 5)]

\* create_danger_button_style
create_danger_button_style ==
    [create_primary_button_style EXCEPT
        !.background_color = rgb(110, 20, 10),
        !.hover_color = rgb(90, 15, 5),
        !.pressed_color = rgb(70, 10, 0),
        !.disabled_color = rgb(80, 96, 119),
        !.border_color = rgb(90, 15, 5)]

\* create_goldenrod_button_style
create_goldenrod_button_style == create_warning_button_style

\* create_lobby_button_style
create_lobby_button_style == create_danger_button_style

\* ButtonStyle::default
ButtonStyle_default ==
    [create_primary_button_style EXCEPT
        !.background_color = rgb(55, 65, 81),
        !.hover_color = rgb(71, 85, 105),
        !.pressed_color = rgb(30, 41, 59),
        !.disabled_color = rgb(148, 163, 184),
        !.border_color = rgb(71, 85, 105),
        !.padding = <<Px(16), Px(8)>>,
        !.text_style.color = rgb(248, 250, 252)]

\* The tooltip text of add_button
TooltipText ==
    "This is a place to describe an upgrade, and what effects it has on the game in a little more detail."

\* The lines of a text and the characters of its longest line
TextShape(text) ==
    CASE text = "Resume Game" -> <<1, 11>>
      [] text = "Restart Run" -> <<1, 11>>
      [] text = "Toggle Test Mode" -> <<1, 16>>
      [] text = "Enter Test Mode" -> <<1, 15>>
      [] text = "Exit Test Mode" -> <<1, 14>>
      [] text = "Quit to Lobby" -> <<1, 13>>
      [] text = "Quit App" -> <<1, 8>>
      [] text = " Show\nDebug\n  Info" -> <<3, 6>>
      [] text = "Show\nDebug\nInfo" -> <<3, 5>>
      [] text \in {"Upgrade 1", "Upgrade 2", "Upgrade 3"} -> <<1, 9>>
      [] text = "Level 1" -> <<1, 7>>
      [] text = TooltipText -> <<1, 100>>
      [] OTHER -> <<1, 0>>

\* TextRenderer::measure_text: <<min_x, width, height>>.  The shaping is the text
\* backend's; here every glyph advances 0.6 * font_size (the estimate the code itself
\* falls back on) and each line of the text is one layout run of line_height.
measure_text(text, style) ==
    <<0,
      TextShape(text)[2] * Times(style.font_size, <<6, 10>>),
      TextShape(text)[1] * style.line_height>>

\* The font fallback of create_text_buffer and update_style
FontFallback(tr, style) ==
    IF style.font_family \notin tr.loaded_fonts /\ style.font_family = "HankenGrotesk"
    THEN [style EXCEPT !.font_family = "DejaVu Sans"]
    ELSE style

\* TextRenderer::new: loaded_fonts holds HankenGrotesk when the font file was read
TextRenderer_new(window_size, loaded_fonts) ==
    [text_buffers |-> <<>>, window_size |-> window_size, loaded_fonts |-> loaded_fonts,
     viewport |-> None]

\* TextRenderer::resize: viewport.update(queue, resolution)
TextRenderer_resize(tr, resolution) ==
    [tr EXCEPT !.viewport = Some(resolution)]

\* TextStyle::default
TextStyle_default ==
    [font_family |-> "DejaVu Sans",
     font_size |-> Px(16),
     line_height |-> Px(20),
     color |-> rgb(255, 255, 255),
     weight |-> "NORMAL",
     style |-> "Normal"]

\* TextPosition::default
TextPosition_default == [x |-> 0, y |-> 0, max_width |-> None, max_height |-> None]

\* Option::unwrap_or
unwrap_or(opt, default) == IF opt = None THEN default ELSE opt[1]

\* Metrics::new(style.font_size, style.line_height)
Metrics_new(style) == <<style.font_size, style.line_height>>

\* The size given to Buffer::set_size: the wrap box of the position, or the window
BufferSize(tr, position) ==
    <<unwrap_or(position.max_width, Px(tr.window_size.width)),
      unwrap_or(position.max_height, Px(tr.window_size.height))>>

\* Attrs::new().family(..).weight(..).style(..)
Attrs_new(style) == <<style.font_family, style.weight, style.style>>

\* The TextBuffer create_text_buffer builds.  Its buffer field is the glyph layout,
\* held as what the layout is shaped from: the metrics, the size, the text and the
\* attributes last given to the glyphon Buffer.
NewTextBuffer(tr, text, style, position) ==
    [buffer |-> [metrics |-> Metrics_new(style),
                 size |-> BufferSize(tr, position),
                 text |-> text,
                 attrs |-> Attrs_new(style)],
     style |-> style,
     position |-> position,
     scale |-> <<1, 1>>,
     visible |-> TRUE,
     text_content |-> text]

\* create_text_buffer that keeps a buffer the id already has
create_text_buffer_keeps(tr, id, text, style, position) ==
    [tr EXCEPT !.text_buffers =
        [i \in DOMAIN tr.text_buffers \cup {id} |->
            IF i \in DOMAIN tr.text_buffers
            THEN tr.text_buffers[i]
            ELSE NewTextBuffer(tr, text,
                               FontFallback(tr, unwrap_or(style, TextStyle_default)),
                               unwrap_or(position, TextPosition_default))]]

\* TextRenderer::create_text_buffer
create_text_buffer(tr, id, text, style, position) ==
    [tr EXCEPT !.text_buffers =
        [i \in DOMAIN tr.text_buffers \cup {id} |->
            IF i = id
            THEN NewTextBuffer(tr, text,
                               FontFallback(tr, unwrap_or(style, TextStyle_default)),
                               unwrap_or(position, TextPosition_default))
            ELSE tr.text_buffers[i]]]

\* The Result of update_style and of update_position: Err when
\* text_buffers.get_mut(id) is None
BufferResult(tr, id) == IF id \in DOMAIN tr.text_buffers THEN "Ok" ELSE "Err"

\* update_style that forgets the stored text
StyleBuffer_forgets(text_buffer, style) ==
    [text_buffer EXCEPT
        !.buffer.metrics = Metrics_new(style),
        !.style = style,
        !.text_content = "",
        !.buffer.text = "",
        !.buffer.attrs = Attrs_new(style)]

\* update_style on the buffer found: set_metrics when the sizes changed, the style
\* stored, set_text(text_content, attrs) and shape_until_scroll
StyleBuffer(text_buffer, style) ==
    [text_buffer EXCEPT
        !.buffer.metrics =
            IF text_buffer.style.font_size # style.font_size
               \/ text_buffer.style.line_height # style.line_height
            THEN Metrics_new(style)
            ELSE @,
        !.style = style,
        !.buffer.text = text_buffer.text_content,
        !.buffer.attrs = Attrs_new(style)]

\* update_style that inserts a buffer for an unknown id
update_style_inserts(tr, id, style) ==
    IF id \notin DOMAIN tr.text_buffers
    THEN create_text_buffer(tr, id, "", Some(style), None)
    ELSE [tr EXCEPT !.text_buffers[id] = StyleBuffer(@, FontFallback(tr, style))]

\* TextRenderer::update_style (an unknown id is an Err the callers drop)
update_style(tr, id, style) ==
    IF id \notin DOMAIN tr.text_buffers
    THEN tr
    ELSE [tr EXCEPT !.text_buffers[id] = StyleBuffer(@, FontFallback(tr, style))]

\* update_position on the buffer found: set_size when the wrap box changed, the
\* position stored
PositionBuffer(tr, text_buffer, position) ==
    [text_buffer EXCEPT
        !.buffer.size =
            IF text_buffer.position.max_width # position.max_width
               \/ text_buffer.position.max_height # position.max_height
            THEN BufferSize(tr, position)
            ELSE @,
        !.position = position]

\* TextRenderer::update_position (an unknown id is an Err the callers log)
update_position(tr, id, position) ==
    IF id \notin DOMAIN tr.text_buffers
    THEN tr
    ELSE [tr EXCEPT !.text_buffers[id] = PositionBuffer(tr, @, position)]

\* `if let Some(id) = &button.level_text_id { ... }` around the three calls above
create_text_buffer_if(tr, text_id, text, style, position) ==
    IF text_id = None THEN tr
    ELSE create_text_buffer(tr, text_id[1], text, Some(style), Some(position))

update_style_if(tr, text_id, style) ==
    IF text_id = None THEN tr ELSE update_style(tr, text_id[1], style)

update_position_if(tr, text_id, position) ==
    IF text_id = None THEN tr ELSE update_position(tr, text_id[1], position)

TextPosition(x, y, max_width, max_height) ==
    [x |-> x, y |-> y, max_width |-> Some(max_width), max_height |-> Some(max_height)]

(***************************************************************************)
(* Button and ButtonManager (src/src/ui/button/mod.rs).  A manager is a    *)
(* record; each method is an operator from the manager before the call to  *)
(* the manager after it.                                                   *)
(***************************************************************************)

\* Button::new
Button_new(id, text) ==
    [id |-> id,
     text |-> text,
     style |-> ButtonStyle_default,
     position |-> ButtonPosition_new(Px(0), Px(0), Px(200), Px(50)),
     enabled |-> TRUE,
     visible |-> TRUE,
     state |-> "Normal",
     text_id |-> "button_" \o id,
     level_text_id |-> None,
     tooltip_text_id |-> None]

\* Button::with_style
with_style(button, style) == [button EXCEPT !.style = style]

\* Button::with_position
with_position(button, position) == [button EXCEPT !.position = position]

\* ButtonPosition::with_anchor
with_anchor(position, anchor) == [position EXCEPT !.anchor = anchor]

\* Button::with_text_align
with_text_align(button, text_align) == [button EXCEPT !.style.text_align = text_align]

\* Button::with_level_text
with_level_text(button) == [button EXCEPT !.level_text_id = Some("level_" \o button.id)]

\* Button::with_tooltip_text
with_tooltip_text(button) == [button EXCEPT !.tooltip_text_id = Some("tooltip_" \o button.id)]

\* Button::set_visible
set_visible(button, visible) == [button EXCEPT !.visible = visible]

\* ButtonManager::new.  window_size is the PhysicalSize<u32> of the window, in whole
\* pixels; the blank icon texture is in textures when its file was read.
ButtonManager_new(window_size, loaded_fonts, textures) ==
    [buttons |-> <<>>,
     button_order |-> <<>>,
     text_renderer |-> TextRenderer_new(window_size, loaded_fonts),
     rectangle_renderer |-> RectangleRenderer_new,
     icon_renderer |-> IconRenderer_new(textures),
     window_size |-> window_size,
     mouse_position |-> <<Px(0), Px(0)>>,
     mouse_pressed |-> FALSE,
     just_clicked |-> None,
     container_rect |-> None,
     last_mouse_position |-> <<Px(0), Px(0)>>,
     last_mouse_pressed |-> FALSE]

\* The x of a text of the given width in a button, by TextAlign
AlignedX(text_align, actual_x, button_width, horizontal_padding, text_width) ==
    CASE text_align = "Left" -> actual_x + horizontal_padding
      [] text_align = "Right" -> actual_x + button_width - horizontal_padding - text_width
      [] OTHER -> actual_x + Half(button_width - text_width)

\* The tooltip's x, by TextAlign
TooltipX(text_align, actual_x, button_width, tooltip_horizontal_padding) ==
    CASE text_align = "Right" -> actual_x + button_width - tooltip_horizontal_padding
      [] OTHER -> actual_x + tooltip_horizontal_padding

\* The level text style: 0.7 of the main text, italic
LevelStyle(text_style, scale) ==
    [text_style EXCEPT !.font_size = Times(Times(text_style.font_size, <<7, 10>>), scale),
                       !.line_height = Times(Times(text_style.line_height, <<7, 10>>), scale),
                       !.style = "Italic"]

\* The tooltip text style: the given fraction of the main font size, line height 1.05
\* of the font size
TooltipStyle(text_style, fraction, scale) ==
    LET font_size == Times(Times(text_style.font_size, fraction), scale)
    IN  [text_style EXCEPT !.font_size = font_size,
                           !.line_height = Times(font_size, <<105, 100>>),
                           !.style = "Normal"]

\* An order tracking that pushes the id on every add
TrackButtonOrder_always(button_order, button_id) == Append(button_order, button_id)

\* add_button, "Track button order": the id is pushed unless button_order contains it
TrackButtonOrder(button_order, button_id) ==
    IF \E i \in 1..Len(button_order) : button_order[i] = button_id
    THEN button_order
    ELSE Append(button_order, button_id)

\* ButtonManager::add_button
add_button(m, button) ==
    LET style == button.style
        horizontal_padding == style.padding[1]
        vertical_padding == style.padding[2]
        window_width == Px(m.window_size.width)
        measured == measure_text(button.text, style.text_style)
        text_width == measured[2]
        text_height == measured[3]
        button_width ==
            CASE style.spacing.kind = "Wrap" -> text_width + 2 * vertical_padding
              [] style.spacing.kind = "Hbar" -> Times(window_width, style.spacing.prop)
              [] OTHER -> IF button.position.width > 0
                          THEN button.position.width
                          ELSE text_width + 2 * vertical_padding
        button_height ==
            CASE style.spacing.kind = "Tall" ->
                     Times(Px(m.window_size.height), style.spacing.prop)
              [] OTHER -> text_height + 2 * vertical_padding
        button_with_size == [button EXCEPT !.position.width = button_width,
                                           !.position.height = button_height]
        actual == calculate_actual_position(button_with_size.position)
        text_color == darken(style.background_color, 35)
        tr1 == create_text_buffer(m.text_renderer, button.text_id, button.text,
                   Some([style.text_style EXCEPT !.color = text_color]),
                   Some(TextPosition(AlignedX(style.text_align, actual[1], button_width,
                                              horizontal_padding, text_width),
                                     actual[2] + vertical_padding,
                                     button_width - 2 * horizontal_padding,
                                     button_height - 2 * vertical_padding)))
        level_style == [LevelStyle(style.text_style, <<1, 1>>) EXCEPT !.color = text_color]
        level_measured == measure_text("Level 1", level_style)
        tr2 == create_text_buffer_if(tr1, button.level_text_id, "Level 1", level_style,
                        TextPosition(AlignedX(style.text_align, actual[1], button_width,
                                              horizontal_padding, level_measured[2]),
                                     actual[2] + Times(button_height, <<55, 100>>),
                                     button_width - 2 * horizontal_padding,
                                     level_measured[3]))
        tooltip_style == [TooltipStyle(style.text_style, <<55, 100>>, <<1, 1>>)
                              EXCEPT !.color = text_color]
        tooltip_horizontal_padding == horizontal_padding + Px(10)
        tr3 == create_text_buffer_if(tr2, button.tooltip_text_id, TooltipText,
                        tooltip_style,
                        TextPosition(TooltipX(style.text_align, actual[1], button_width,
                                              tooltip_horizontal_padding),
                                     actual[2] + Times(button_height, <<68, 100>>),
                                     button_width - 2 * tooltip_horizontal_padding,
                                     Times(button_height, <<28, 100>>)))
    IN  [m EXCEPT
           !.text_renderer = tr3,
           !.button_order = TrackButtonOrder(@, button.id),
           !.buttons = [id \in DOMAIN m.buttons \cup {button.id} |->
                           IF id = button.id THEN button_with_size ELSE m.buttons[id]]]

\* The hover scale of the Tall buttons: 1.1 on Hover, 1.05 when Pressed
StateScale(state) ==
    CASE state = "Hover" -> <<11, 10>>
      [] state = "Pressed" -> <<105, 100>>
      [] OTHER -> <<1, 1>>

\* The scale applied to widgets of every spacing
ButtonScale_every(button) == StateScale(button.state)

\* The scale render and update_button_positions use: StateScale for Tall buttons only
ButtonScale(button) ==
    IF button.style.spacing.kind = "Tall" THEN StateScale(button.state) ELSE <<1, 1>>

\* button_center + (v - button_center) * scale
ScaleAbout(center, v, scale) == center + Times(v - center, scale)

\* The icon update_icon_positions places on a Tall button
ButtonIcon(button) ==
    LET actual == calculate_actual_position(button.position)
        scale == StateScale(button.state)
        scaled_width == Times(button.position.width, scale)
        scaled_height == Times(button.position.height, scale)
        scaled_x == actual[1] - Half(scaled_width - button.position.width)
        scaled_y == actual[2] - Half(scaled_height - button.position.height)
        margin == Times(Px(16), scale)
        icon_size == Min2(scaled_width - 2 * margin, Times(scaled_height, <<4, 10>>))
    IN  Icon_new(scaled_x + Half(scaled_width - icon_size),
                 scaled_y + Times(scaled_height, <<5, 10>>),
                 icon_size, icon_size, "blank_icon")

RECURSIVE AddIcons(_, _, _)
\* The loop of update_icon_positions over button_order
AddIcons(r, buttons, ids) ==
    IF ids = <<>>
    THEN r
    ELSE LET id == Head(ids)
             r1 == IF /\ id \in DOMAIN buttons
                      /\ buttons[id].visible
                      /\ buttons[id].style.spacing.kind = "Tall"
                   THEN add_icon(r, ButtonIcon(buttons[id]))
                   ELSE r
         IN  AddIcons(r1, buttons, Tail(ids))

\* ButtonManager::update_icon_positions
update_icon_positions(m) ==
    [m EXCEPT !.icon_renderer = AddIcons(clear_icons(m.icon_renderer), m.buttons,
                                         m.button_order)]

is_button_clicked_keeps(m, id) ==
    [m |-> m, ret |-> m.just_clicked = Some(id)]

\* ButtonManager::is_button_clicked: the manager afterwards and the value returned
is_button_clicked(m, id) ==
    IF m.just_clicked # None /\ m.just_clicked[1] = id
    THEN [m |-> [m EXCEPT !.just_clicked = None], ret |-> TRUE]
    ELSE [m |-> m, ret |-> FALSE]

\* A variant of NewState in which a Pressed button stays Pressed while the mouse button
\* is held, wherever the cursor goes
NewState_captured(m, button) ==
    LET is_hovered == contains_point(button, m.mouse_position[1], m.mouse_position[2])
    IN  IF m.mouse_pressed /\ (is_hovered \/ button.state = "Pressed") THEN "Pressed"
        ELSE IF is_hovered THEN "Hover"
        ELSE "Normal"

\* The state update_button_states gives a visible, enabled button
NewState(m, button) ==
    LET is_hovered == contains_point(button, m.mouse_position[1], m.mouse_position[2])
    IN  IF m.mouse_pressed /\ is_hovered THEN "Pressed"
        ELSE IF is_hovered THEN "Hover"
        ELSE "Normal"

\* The text colour and weight update_button_states gives a button in its state
StateTextColor(button) ==
    CASE button.state = "Normal" -> darken(button.style.background_color, 35)
      [] button.state = "Hover" -> saturate(button.style.hover_color, 90)
      [] button.state = "Pressed" -> saturate(brighten(button.style.pressed_color, 15), 35)
      [] OTHER -> rgb(100, 116, 139)

StateTextWeight(button) ==
    CASE button.state = "Normal" -> button.style.text_style.weight
      [] button.state = "Hover" -> "BOLD"
      [] button.state = "Pressed" -> "MEDIUM"
      [] OTHER -> "NORMAL"

\* update_button_states, the branch of a button that is not visible or not enabled
DisableButton(m, id) ==
    LET button == m.buttons[id]
        hidden == [button.style.text_style EXCEPT !.color = <<0, 0, 0, 0>>]
        tr1 == update_style(m.text_renderer, button.text_id, hidden)
        tr2 == update_style_if(tr1, button.level_text_id, hidden)
        tr3 == update_style_if(tr2, button.tooltip_text_id, hidden)
    IN  IF button.state # "Disabled"
        THEN [m EXCEPT !.buttons[id].state = "Disabled", !.text_renderer = tr3]
        ELSE m

\* update_button_states, the text positions of a button whose state changed (Tall
\* buttons only)
TallTextPositions(tr, button, new_style) ==
    LET actual == calculate_actual_position(button.position)
        horizontal_padding == button.style.padding[1]
        vertical_padding == button.style.padding[2]
        width == button.position.width
        height == button.position.height
        scale == StateScale(button.state)
        scaled_max_text_width == Times(width - 2 * horizontal_padding, scale)
        wrap == measure_text(button.text, new_style)
        button_center_x == actual[1] + Half(width)
        button_center_y == actual[2] + Half(height)
        tr1 == update_position(tr, button.text_id,
                   TextPosition(ScaleAbout(button_center_x,
                                           AlignedX(button.style.text_align, actual[1],
                                                    width, horizontal_padding, wrap[2]),
                                           scale),
                                ScaleAbout(button_center_y, actual[2] + vertical_padding,
                                           scale),
                                scaled_max_text_width,
                                Times(wrap[3], scale)))
        level == measure_text("Level 1", LevelStyle(button.style.text_style, <<1, 1>>))
        tr2 == update_position_if(tr1, button.level_text_id,
                        TextPosition(ScaleAbout(button_center_x,
                                                AlignedX(button.style.text_align, actual[1],
                                                         width, horizontal_padding, level[2]),
                                                scale),
                                     ScaleAbout(button_center_y,
                                                actual[2] + Times(height, <<55, 100>>), scale),
                                     scaled_max_text_width,
                                     Times(level[3], scale)))
        tooltip_horizontal_padding == horizontal_padding + Px(10)
        tr3 == update_position_if(tr2, button.tooltip_text_id,
                        TextPosition(ScaleAbout(button_center_x,
                                                TooltipX(button.style.text_align, actual[1],
                                                         width, tooltip_horizontal_padding),
                                                scale),
                                     ScaleAbout(button_center_y,
                                                actual[2] + Times(height, <<68, 100>>), scale),
                                     scaled_max_text_width - 2 * Px(10),
                                     Times(Times(height, <<28, 100>>), scale)))
    IN  IF button.style.spacing.kind = "Tall" THEN tr3 ELSE tr

\* The text size scale update_button_states gives a button in its state
StateTextSizeScale(button) ==
    IF button.style.spacing.kind = "Tall"
    THEN CASE button.state = "Hover" -> <<12, 10>>
           [] button.state = "Pressed" -> <<11, 10>>
           [] OTHER -> <<1, 1>>
    ELSE <<1, 1>>

\* update_button_states, the restyling of a button whose state changed to button.state
RestyleButton(m, id, button, text_color, text_weight, text_size_scale) ==
    LET new_style ==
            [button.style.text_style EXCEPT
               !.color = text_color,
               !.weight = text_weight,
               !.font_size = Times(@, text_size_scale),
               !.line_height = Times(@, text_size_scale)]
        tr1 == update_style(m.text_renderer, button.text_id, new_style)
        tr2 == update_style_if(tr1, button.level_text_id,
                   [LevelStyle(button.style.text_style, text_size_scale) EXCEPT
                       !.color = text_color, !.weight = text_weight])
        tr3 == update_style_if(tr2, button.tooltip_text_id,
                   [TooltipStyle(button.style.text_style, <<6, 10>>, text_size_scale) EXCEPT
                       !.color = text_color, !.weight = text_weight])
    IN  [m EXCEPT !.buttons[id] = button,
                  !.text_renderer = TallTextPositions(tr3, button, new_style)]

\* update_button_states, what it does to a button whose state changes: button is the
\* button in its new state
ChangeButtonState(m, id, button) ==
    RestyleButton(m, id, button, StateTextColor(button), StateTextWeight(button),
                  StateTextSizeScale(button))

\* update_button_states, the body of the loop for one button
UpdateButtonState(m, id) ==
    IF ~m.buttons[id].visible \/ ~m.buttons[id].enabled
    THEN DisableButton(m, id)
    ELSE IF m.buttons[id].state = NewState(m, m.buttons[id])
    THEN m
    ELSE ChangeButtonState(m, id,
                           [m.buttons[id] EXCEPT !.state = NewState(m, m.buttons[id])])

RECURSIVE UpdateButtonStates(_, _)
\* update_button_states, the loop over the buttons (each button touches only its own
\* state and text buffers, so the HashMap's order does not matter)
UpdateButtonStates(m, ids) ==
    IF ids = <<>> THEN m
    ELSE UpdateButtonStates(UpdateButtonState(m, Head(ids)), Tail(ids))

\* ButtonManager::update_button_states
update_button_states(m) ==
    IF /\ m.mouse_position = m.last_mouse_position
       /\ m.mouse_pressed = m.last_mouse_pressed
    THEN m
    ELSE update_icon_positions(
             UpdateButtonStates([m EXCEPT !.last_mouse_position = m.mouse_position,
                                          !.last_mouse_pressed = m.mouse_pressed],
                                m.button_order))

\* update_button_positions, the body of the loop for one button
UpdateButtonPosition(m, id) ==
    LET button == m.buttons[id]
        tall == button.style.spacing.kind = "Tall"
        actual == calculate_actual_position(button.position)
        horizontal_padding == button.style.padding[1]
        vertical_padding == button.style.padding[2]
        width == button.position.width
        height == button.position.height
        scale == ButtonScale(button)
        button_center_x == actual[1] + Half(width)
        button_center_y == actual[2] + Half(height)
        Placed(x, y) == IF tall
                        THEN <<ScaleAbout(button_center_x, x, scale),
                               ScaleAbout(button_center_y, y, scale)>>
                        ELSE <<x, y>>
        wrap == measure_text(button.text, button.style.text_style)
        text_at == Placed(AlignedX(button.style.text_align, actual[1], width,
                                   horizontal_padding, wrap[2]),
                          IF tall THEN actual[2] + vertical_padding
                          ELSE actual[2] + Half(height - wrap[3]))
        tr1 == update_position(m.text_renderer, button.text_id,
                   TextPosition(text_at[1], text_at[2],
                                Times(width - 2 * horizontal_padding, scale),
                                Times(wrap[3], scale)))
        level == measure_text("Level 1", LevelStyle(button.style.text_style, <<1, 1>>))
        level_at == Placed(AlignedX(button.style.text_align, actual[1], width,
                                    horizontal_padding, level[2]),
                           IF tall THEN actual[2] + Times(height, <<55, 100>>)
                           ELSE actual[2] + height - level[3] - vertical_padding)
        tr2 == update_position_if(tr1, button.level_text_id,
                        TextPosition(level_at[1], level_at[2],
                                     Times(level[2], scale), Times(level[3], scale)))
        tooltip_text ==
            IF button.tooltip_text_id # None
               /\ button.tooltip_text_id[1] \in DOMAIN m.text_renderer.text_buffers
            THEN m.text_renderer.text_buffers[button.tooltip_text_id[1]].text_content
            ELSE TooltipText
        tooltip == measure_text(tooltip_text,
                                TooltipStyle(button.style.text_style, <<55, 100>>, <<1, 1>>))
        tooltip_horizontal_padding == horizontal_padding + Px(10)
        tooltip_at == Placed(TooltipX(button.style.text_align, actual[1], width,
                                      tooltip_horizontal_padding),
                             IF tall THEN actual[2] + Times(height, <<68, 100>>)
                             ELSE actual[2] + height - tooltip[3] - vertical_padding)
        tr3 == update_position_if(tr2, button.tooltip_text_id,
                        TextPosition(tooltip_at[1], tooltip_at[2],
                                     Times(width - 2 * tooltip_horizontal_padding, scale),
                                     Times(Times(height, <<28, 100>>), scale)))
    IN  [m EXCEPT !.text_renderer = tr3,
                  !.buttons[id].position.height =
                      IF tall THEN @ ELSE wrap[3] + 2 * button.style.padding[2]]

RECURSIVE UpdateButtonPositions(_, _)
\* update_button_positions, the loop over the buttons
UpdateButtonPositions(m, ids) ==
    IF ids = <<>> THEN m
    ELSE UpdateButtonPositions(UpdateButtonPosition(m, Head(ids)), Tail(ids))

\* ButtonManager::update_button_positions
update_button_positions(m) ==
    update_icon_positions(UpdateButtonPositions(m, m.button_order))

\* The buttons a left-release can register as clicked: handle_input takes the first
\* one the HashMap yields
ClickCandidates(m) ==
    {id \in DOMAIN m.buttons :
        /\ m.buttons[id].visible
        /\ m.buttons[id].enabled
        /\ m.buttons[id].state = "Pressed"}

\* WindowEvents
LeftPressed == [kind |-> "Pressed"]

LeftReleased == [kind |-> "Released"]

CursorMoved(position) == [kind |-> "CursorMoved", position |-> position]

Resized(size) == [kind |-> "Resized", size |-> size]

OtherEvent == [kind |-> "Other"]

\* ButtonManager::handle_input; first is the Pressed button the release loop meets
\* first (any of ClickCandidates)
handle_input(m, event, first) ==
    IF event.kind \in {"Pressed", "Released", "CursorMoved"}
    THEN update_button_states(
             CASE event.kind = "Pressed" -> [m EXCEPT !.mouse_pressed = TRUE]
               [] event.kind = "Released" ->
                      [m EXCEPT !.just_clicked = IF ClickCandidates(m) = {} THEN @
                                                 ELSE Some(first),
                                !.mouse_pressed = FALSE]
               [] OTHER -> [m EXCEPT !.mouse_position = event.position])
    ELSE IF event.kind = "Resized"
    THEN update_button_positions([m EXCEPT !.window_size = event.size])
    ELSE m

\* ButtonManager::resize
ButtonManager_resize(m, resolution) ==
    [m EXCEPT
       !.text_renderer = TextRenderer_resize(@, resolution),
       !.rectangle_renderer = RectangleRenderer_resize(@, Px(resolution.width),
                                                       Px(resolution.height)),
       !.icon_renderer = IconRenderer_resize(@, Px(resolution.width),
                                             Px(resolution.height))]

\* The rectangle render queues for a visible button
ButtonRectangle(button) ==
    LET actual == calculate_actual_position(button.position)
        color == IF ~button.enabled THEN button.style.disabled_color
                 ELSE CASE button.state = "Normal" -> button.style.background_color
                        [] button.state = "Hover" -> button.style.hover_color
                        [] button.state = "Pressed" -> button.style.pressed_color
                        [] OTHER -> button.style.disabled_color
        scale == ButtonScale(button)
        scaled_width == Times(button.position.width, scale)
        scaled_height == Times(button.position.height, scale)
    IN  with_corner_radius(
            Rectangle_new(actual[1] - Half(scaled_width - button.position.width),
                          actual[2] - Half(scaled_height - button.position.height),
                          scaled_width, scaled_height, color),
            Times(button.style.corner_radius, scale))

RECURSIVE AddButtonRectangles_all(_, _, _)
AddButtonRectangles_all(r, buttons, ids) ==
    IF ids = <<>> THEN r
    ELSE AddButtonRectangles_all(
             IF Head(ids) \in DOMAIN buttons
             THEN add_rectangle(r, ButtonRectangle(buttons[Head(ids)]))
             ELSE r,
             buttons, Tail(ids))

RECURSIVE AddButtonRectangles(_, _, _)
\* The loop of render over button_order
AddButtonRectangles(r, buttons, ids) ==
    IF ids = <<>> THEN r
    ELSE AddButtonRectangles(
             IF Head(ids) \in DOMAIN buttons /\ buttons[Head(ids)].visible
             THEN add_rectangle(r, ButtonRectangle(buttons[Head(ids)]))
             ELSE r,
             buttons, Tail(ids))

\* ButtonManager::render: the manager afterwards and the draws submitted to the render
\* pass, in order (a renderer with nothing to draw submits none; the text renderer
\* always submits its prepared glyphs)
ButtonManager_render(m) ==
    LET r1 == clear_rectangles(m.rectangle_renderer)
        r2 == IF m.container_rect = None THEN r1 ELSE add_rectangle(r1, m.container_rect[1])
        r3 == AddButtonRectangles(r2, m.buttons, m.button_order)
        rects == RectangleRenderer_render(r3)
        icons == IconRenderer_render(m.icon_renderer)
    IN  [m |-> [m EXCEPT !.rectangle_renderer = rects.r, !.icon_renderer = icons.r],
         draws |-> (IF rects.drew
                    THEN <<[pass |-> "rectangles", buffer |-> rects.drawn,
                            index_count |-> rects.index_count]>>
                    ELSE <<>>)
                   \o (IF icons.draws # {}
                       THEN <<[pass |-> "icons", groups |-> icons.draws]>>
                       ELSE <<>>)
                   \o <<[pass |-> "text",
                         buffers |-> DOMAIN m.text_renderer.text_buffers]>>]

(***************************************************************************)
(* PauseMenu (src/src/pause_menu.rs) and UpgradeMenu                       *)
(* (src/src/upgrade_menu.rs).  A menu is a record with its button_manager. *)
(***************************************************************************)

\* PauseMenu::scaled_text_style
scaled_text_style(window_height) ==
    LET scale == dpi_scale(window_height)
    IN  [font_family |-> "HankenGrotesk",
         font_size |-> Clamp(Times(Px(32), scale), Px(16), Px(48)),
         line_height |-> Clamp(Times(Px(40), scale), Px(24), Px(60)),
         color |-> create_primary_button_style.text_style.color,
         weight |-> "MEDIUM",
         style |-> "Normal"]

\* The layout create_menu_buttons and recreate_buttons_for_new_size compute from the
\* window size; y is the closure |i| start_y + button_height / 2 + i * (button_height
\* + button_spacing)
PauseLayout(window_size) ==
    LET scale == dpi_scale(Px(window_size.height))
        button_width == Clamp(Times(Times(Px(window_size.width), <<38, 100>>), scale),
                              Px(180), Px(600))
        button_height == Clamp(Times(Times(Px(window_size.height), <<9, 100>>), scale),
                               Px(32), Px(140))
        button_spacing == Clamp(Times(Times(Px(window_size.height), <<15, 1000>>), scale),
                                Px(2), Px(24))
        total_height == button_height * 5 + button_spacing * 4
        start_y == Half(Px(window_size.height) - total_height)
    IN  [scale |-> scale,
         button_width |-> button_width,
         button_height |-> button_height,
         center_x |-> Half(Px(window_size.width)),
         y |-> [i \in 0..4 |-> start_y + Half(button_height)
                                 + i * (button_height + button_spacing)],
         text_style |-> scaled_text_style(Px(window_size.height))]

\* A row button of the pause menu, as create_menu_buttons builds it
PauseRowButton(layout, id, text, style, i) ==
    with_position(
        with_text_align(with_style(Button_new(id, text),
                                   [style EXCEPT !.text_style = layout.text_style]),
                        "Center"),
        with_anchor(ButtonPosition_new(layout.center_x, layout.y[i], layout.button_width,
                                       layout.button_height),
                    "Center"))

\* PauseMenu::create_menu_buttons, given the layout
CreateMenuButtons(m, window_size, layout) ==
    LET debug_style ==
            [create_warning_button_style EXCEPT
                !.text_style.font_size = Times(layout.text_style.font_size, <<5, 10>>),
                !.text_style.line_height = Times(layout.text_style.line_height, <<5, 10>>),
                !.padding = <<Times(Px(2), layout.scale), Times(Px(6), layout.scale)>>,
                !.spacing = Wrap]
        measured == measure_text(" Show\nDebug\n  Info", debug_style.text_style)
        debug_button_side == Max2(measured[2], measured[3]) + 2 * debug_style.padding[2]
        debug_button ==
            with_position(
                with_text_align(with_style(Button_new("debug", " Show\nDebug\n  Info"),
                                           debug_style),
                                "Center"),
                [x |-> Px(60),
                 y |-> Px(window_size.height) - debug_button_side - Px(16),
                 width |-> debug_button_side,
                 height |-> debug_button_side,
                 anchor |-> "TopLeft"])
        m1 == add_button(m, PauseRowButton(layout, "resume", "Resume Game",
                                           create_primary_button_style, 0))
        m2 == add_button(m1, PauseRowButton(layout, "settings", "Restart Run",
                                            create_goldenrod_button_style, 1))
        m3 == add_button(m2, PauseRowButton(layout, "toggle_test_mode", "Toggle Test Mode",
                                            create_goldenrod_button_style, 2))
        m4 == add_button(m3, PauseRowButton(layout, "restart", "Quit to Lobby",
                                            create_lobby_button_style, 3))
        m5 == add_button(m4, PauseRowButton(layout, "quit_menu", "Quit App",
                                            create_danger_button_style, 4))
        m6 == add_button(m5, debug_button)
    IN  update_button_positions(m6)

\* PauseMenu::create_menu_buttons
create_menu_buttons(m, window_size) ==
    CreateMenuButtons(m, window_size, PauseLayout(window_size))

\* PauseMenu::new
PauseMenu_new(window_size, loaded_fonts, textures) ==
    [kind |-> "pause",
     button_manager |-> create_menu_buttons(
                            ButtonManager_new(window_size, loaded_fonts, textures),
                            window_size),
     visible |-> FALSE,
     last_action |-> "None",
     show_debug_panel |-> FALSE]

\* The loop of show / hide over the buttons
SetAllVisible(m, visible) ==
    [m EXCEPT !.buttons = [id \in DOMAIN m.buttons |-> set_visible(m.buttons[id], visible)]]

\* PauseMenu::update_test_mode_button_text
update_test_mode_button_text(m, is_test_mode) ==
    IF "toggle_test_mode" \in DOMAIN m.buttons
    THEN [m EXCEPT !.buttons["toggle_test_mode"].text =
                       IF is_test_mode THEN "Exit Test Mode" ELSE "Enter Test Mode"]
    ELSE m

\* PauseMenu::show
PauseMenu_show(pm, is_test_mode) ==
    [pm EXCEPT
       !.visible = TRUE,
       !.last_action = "None",
       !.button_manager =
           update_test_mode_button_text(
               update_button_states(SetAllVisible(@, TRUE)), is_test_mode)]

\* PauseMenu::hide
PauseMenu_hide(pm) ==
    [pm EXCEPT
       !.visible = FALSE,
       !.last_action = "None",
       !.button_manager = SetAllVisible(@, FALSE)]

\* PauseQueries without the query for settings
PauseQueries_short == <<"resume", "restart", "quit_menu", "toggle_test_mode", "debug">>

\* The is_button_clicked queries of PauseMenu::handle_input, in order
PauseQueries == <<"resume", "settings", "restart", "quit_menu", "toggle_test_mode", "debug">>

\* ClickEffect with the actions of resume and settings exchanged
ClickEffect_swapped(pm, id) ==
    CASE id = "resume" -> [pm EXCEPT !.last_action = "Settings"]
      [] id = "settings" -> [pm EXCEPT !.last_action = "Resume"]
      [] id = "debug" -> [pm EXCEPT !.show_debug_panel = ~@]
      [] OTHER -> [pm EXCEPT !.last_action = "None"]

\* What handle_input does when is_button_clicked(id) returned true
ClickEffect(pm, id) ==
    CASE id = "resume" -> [pm EXCEPT !.last_action = "Resume"]
      [] id = "settings" -> [pm EXCEPT !.last_action = "Settings"]
      [] id = "restart" -> [pm EXCEPT !.last_action = "Restart"]
      [] id = "quit_menu" -> [pm EXCEPT !.last_action = "QuitToMenu"]
      [] id = "toggle_test_mode" -> [pm EXCEPT !.last_action = "ToggleTestMode"]
      [] id = "debug" -> [pm EXCEPT !.show_debug_panel = ~@]
      [] id = "upgrade_1" -> [pm EXCEPT !.last_action = "SelectUpgrade1"]
      [] id = "upgrade_2" -> [pm EXCEPT !.last_action = "SelectUpgrade2"]
      [] id = "upgrade_3" -> [pm EXCEPT !.last_action = "SelectUpgrade3"]
      [] OTHER -> pm

RECURSIVE CheckClicks(_, _)
\* The chain of `if self.button_manager.is_button_clicked(id) { ... }` of handle_input
CheckClicks(pm, ids) ==
    IF ids = <<>> THEN pm
    ELSE LET res == is_button_clicked(pm.button_manager, Head(ids))
             pm1 == [pm EXCEPT !.button_manager = res.m]
         IN  CheckClicks(IF res.ret THEN ClickEffect(pm1, Head(ids)) ELSE pm1, Tail(ids))

\* PauseMenu::handle_input
PauseMenu_handle_input(pm, event, first) ==
    IF ~pm.visible THEN pm
    ELSE CheckClicks([pm EXCEPT !.button_manager = handle_input(@, event, first)],
                     PauseQueries)

\* PauseMenu::get_last_action / UpgradeMenu::get_last_action: the menu afterwards and
\* the action returned
get_last_action(pm) ==
    [pm |-> [pm EXCEPT !.last_action = "None"], ret |-> pm.last_action]

\* PauseMenu::recreate_buttons_for_new_size, given the layout
RecreateButtons(m, layout) ==
    LET Row(button, i) ==
            [button EXCEPT !.position.x = layout.center_x,
                           !.position.y = layout.y[i],
                           !.position.width = layout.button_width,
                           !.position.height = layout.button_height,
                           !.position.anchor = "Center"]
        Restyled(style) == [style EXCEPT !.text_style = layout.text_style]
        Debug(button) ==
            LET measured == measure_text("Show\nDebug\nInfo", button.style.text_style)
                side == Max2(measured[2], measured[3]) + 2 * button.style.padding[2]
            IN  [button EXCEPT !.style.spacing = Wrap,
                               !.position.x = Px(60),
                               !.position.y = Px(m.window_size.height) - side - Px(16),
                               !.position.width = side,
                               !.position.height = side,
                               !.position.anchor = "TopLeft"]
        Recreated(button) ==
            CASE button.id = "resume" ->
                     [Row(button, 0) EXCEPT !.style.text_style = layout.text_style]
              [] button.id = "settings" ->
                     [Row(button, 1) EXCEPT !.text = "Restart Run",
                                            !.style = Restyled(create_goldenrod_button_style)]
              [] button.id = "toggle_test_mode" ->
                     [Row(button, 2) EXCEPT !.text = "Toggle Test Mode",
                                            !.style = Restyled(create_goldenrod_button_style)]
              [] button.id = "restart" ->
                     [Row(button, 3) EXCEPT !.text = "Quit to Lobby",
                                            !.style = Restyled(create_lobby_button_style)]
              [] button.id = "quit_menu" ->
                     [Row(button, 4) EXCEPT !.style = Restyled(create_danger_button_style)]
              [] button.id = "debug" -> Debug(button)
              [] OTHER -> button
    IN  update_button_positions(
            [m EXCEPT !.buttons = [id \in DOMAIN m.buttons |-> Recreated(m.buttons[id])]])

\* PauseMenu::recreate_buttons_for_new_size
recreate_buttons_for_new_size(m) == RecreateButtons(m, PauseLayout(m.window_size))

\* PauseMenu::resize
PauseMenu_resize(pm, resolution) ==
    [pm EXCEPT !.button_manager =
        recreate_buttons_for_new_size(
            [ButtonManager_resize(@, resolution) EXCEPT !.window_size = resolution])]

\* PauseMenu::render / UpgradeMenu::render: the menu afterwards and the draws submitted
Menu_render(pm) ==
    LET res == ButtonManager_render(pm.button_manager)
    IN  [pm |-> [pm EXCEPT !.button_manager = res.m], draws |-> res.draws]

\* The layout create_upgrade_layout and recreate_layout_for_new_size compute from the
\* window size
UpgradeLayout(window_size) ==
    LET window_width == Px(window_size.width)
        window_height == Px(window_size.height)
        container_width == Times(window_width, <<8, 10>>)
        container_height == Times(window_height, <<7, 10>>)
        container_x == Half(window_width - container_width)
        container_y == Half(window_height - container_height)
        slot_width == Times(container_width, <<25, 100>>)
        slot_spacing == Times(container_width, <<5, 100>>)
        total_slots_width == slot_width * 3 + slot_spacing * 2
        slots_start_x == container_x + Half(container_width - total_slots_width)
        \* (container_height * (1.0 - 2.0 * margin)) / window_height, margin = 0.1
        height_proportion == Ratio(Times(container_height, <<8, 10>>), window_height)
    IN  [container_rect |->
             with_corner_radius(Rectangle_new(container_x, container_y, container_width,
                                              container_height, <<102, 102, 102, 255>>),
                                Px(20)),
         slot_width |-> slot_width,
         slot_x |-> [i \in 0..2 |-> slots_start_x + i * (slot_width + slot_spacing)],
         slot_y |-> container_y
                    + Half(container_height - Times(window_height, height_proportion)),
         height_proportion |-> height_proportion]

\* The ids and texts of the three upgrade slots
UpgradeSlots == <<"upgrade_1", "upgrade_2", "upgrade_3">>

UpgradeTexts == <<"Upgrade 1", "Upgrade 2", "Upgrade 3">>

\* A slot button, as create_upgrade_layout builds it
UpgradeSlotButton(layout, i) ==
    LET slot_style ==
            [create_primary_button_style EXCEPT
                !.background_color = rgb(200, 200, 200),
                !.hover_color = rgb(180, 180, 180),
                !.pressed_color = rgb(160, 160, 160),
                !.corner_radius = Px(12),
                !.padding = <<Px(8), Px(8)>>,
                !.text_style.font_size = Px(32),
                !.text_style.line_height = Px(48),
                !.text_style.color = rgb(50, 50, 50),
                !.spacing = Tall(layout.height_proportion)]
    IN  with_position(
            with_tooltip_text(with_level_text(
                with_text_align(with_style(Button_new(UpgradeSlots[i + 1],
                                                      UpgradeTexts[i + 1]),
                                           slot_style),
                                "Center"))),
            with_anchor(ButtonPosition_new(layout.slot_x[i], Px(0), layout.slot_width, Px(0)),
                        "TopLeft"))

\* UpgradeMenu::create_upgrade_layout, given the layout
CreateUpgradeLayout(m, layout) ==
    LET m0 == [m EXCEPT !.container_rect = Some(layout.container_rect)]
        m1 == add_button(m0, UpgradeSlotButton(layout, 0))
        m2 == add_button(m1, UpgradeSlotButton(layout, 1))
        m3 == add_button(m2, UpgradeSlotButton(layout, 2))
    IN  update_button_positions(m3)

\* UpgradeMenu::create_upgrade_layout
create_upgrade_layout(m, window_size) == CreateUpgradeLayout(m, UpgradeLayout(window_size))

\* UpgradeMenu::new
UpgradeMenu_new(window_size, loaded_fonts, textures) ==
    [kind |-> "upgrade",
     button_manager |-> create_upgrade_layout(
                            ButtonManager_new(window_size, loaded_fonts, textures),
                            window_size),
     visible |-> FALSE,
     last_action |-> "None",
     show_debug_panel |-> FALSE]

\* UpgradeMenu::show
UpgradeMenu_show(pm) ==
    [pm EXCEPT
       !.visible = TRUE,
       !.last_action = "None",
       !.button_manager = update_button_states(SetAllVisible(@, TRUE))]

\* UpgradeMenu::hide
UpgradeMenu_hide(pm) ==
    [pm EXCEPT
       !.visible = FALSE,
       !.last_action = "None",
       !.button_manager = SetAllVisible(@, FALSE)]

\* UpgradeMenu::handle_input
UpgradeMenu_handle_input(pm, event, first) ==
    IF ~pm.visible THEN pm
    ELSE CheckClicks([pm EXCEPT !.button_manager = handle_input(@, event, first)],
                     UpgradeSlots)

\* UpgradeMenu::recreate_layout_for_new_size, given the layout
RecreateLayout(m, layout) ==
    LET Slot(id) == CHOOSE i \in 0..2 : UpgradeSlots[i + 1] = id
        Recreated(button) ==
            IF \E i \in 0..2 : UpgradeSlots[i + 1] = button.id
            THEN [button EXCEPT !.style.spacing = Tall(layout.height_proportion),
                                !.position.x = layout.slot_x[Slot(button.id)],
                                !.position.y = layout.slot_y,
                                !.position.width = layout.slot_width,
                                !.position.anchor = "TopLeft"]
            ELSE button
    IN  update_button_positions(
            [m EXCEPT !.container_rect = Some(layout.container_rect),
                      !.buttons = [id \in DOMAIN m.buttons |-> Recreated(m.buttons[id])]])

\* UpgradeMenu::recreate_layout_for_new_size
recreate_layout_for_new_size(m) == RecreateLayout(m, UpgradeLayout(m.window_size))

\* UpgradeMenu::resize
UpgradeMenu_resize(pm, resolution) ==
    LET m == [ButtonManager_resize(pm.button_manager, resolution)
                  EXCEPT !.window_size = resolution]
    IN  [pm EXCEPT !.button_manager =
            IF pm.visible THEN recreate_layout_for_new_size(m) ELSE m]

(***************************************************************************)
(* Spec: a menu (PauseMenu or UpgradeMenu) driven through its public       *)
(* operations, as the application drives it.  mlog records what the last   *)
(* operation did.                                                          *)
(***************************************************************************)

\* Window sizes: 1920x1080 (dpi_scale 1.0) and 1360x756 (dpi_scale 0.7)
WindowSizes == {[width |-> 1920, height |-> 1080], [width |-> 1360, height |-> 756]}

\* Cursor positions reported by CursorMoved
MousePoints == {<<Px(0), Px(0)>>, <<Px(700), Px(320)>>}

\* The WindowEvents delivered to handle_input
Events ==
    {LeftPressed, LeftReleased, OtherEvent} \cup {CursorMoved(p) : p \in MousePoints}

\* The widgets a point is inside, by Button::contains_point
Under(m, p) == {id \in DOMAIN m.buttons : contains_point(m.buttons[id], p[1], p[2])}

RECURSIVE QueryLog(_, _)
\* The is_button_clicked calls of a handle_input chain: for each, the id asked, the
\* pending click before, the value returned and the pending click after
QueryLog(m, ids) ==
    IF ids = <<>> THEN <<>>
    ELSE LET res == is_button_clicked(m, Head(ids))
         IN  <<[id |-> Head(ids), before |-> m.just_clicked, ret |-> res.ret,
                after |-> res.m.just_clicked]>>
             \o QueryLog(res.m, Tail(ids))

MenuLog0 ==
    [op |-> "new", click_stage |-> 0, click_w |-> "", drag_stage |-> 0,
     dragin_stage |-> 0, dragin_w |-> "", pending |-> None, queries |-> <<>>, draws |-> <<>>, action |-> "None"]

Init ==
    /\ probe = None
    /\ texts = None /\ xlog = None
    /\ app = None /\ alog = None
    /\ rr = None /\ ir = None /\ rlog = None
    /\ timer = None /\ now = 0 /\ tlog = None
    /\ \E size \in WindowSizes :
          menu \in {PauseMenu_new(size, {"HankenGrotesk"}, {"blank_icon"}),
                    UpgradeMenu_new(size, {"HankenGrotesk"}, {"blank_icon"})}
    /\ mlog = MenuLog0

\* PauseMenu::show(is_test_mode) / UpgradeMenu::show()
Show ==
    /\ \E is_test_mode \in BOOLEAN :
          menu' = IF menu.kind = "pause" THEN PauseMenu_show(menu, is_test_mode)
                  ELSE UpgradeMenu_show(menu)
    /\ mlog' = [MenuLog0 EXCEPT !.op = "layout"]
    /\ UNCHANGED <<pureVars, rendVars, timerVars, textVars, appVars>>

\* PauseMenu::hide / UpgradeMenu::hide
Hide ==
    /\ menu' = IF menu.kind = "pause" THEN PauseMenu_hide(menu) ELSE UpgradeMenu_hide(menu)
    /\ mlog' = [MenuLog0 EXCEPT !.op = "layout"]
    /\ UNCHANGED <<pureVars, rendVars, timerVars, textVars, appVars>>

\* PauseMenu::handle_input / UpgradeMenu::handle_input with one WindowEvent of events
HandleInputOf(events) ==
    \E event \in events :
      \E first \in (IF ClickCandidates(menu.button_manager) = {} THEN {""}
                    ELSE ClickCandidates(menu.button_manager)) :
        LET m0 == menu.button_manager
            m1 == handle_input(m0, event, first)
            ids == IF menu.kind = "pause" THEN PauseQueries ELSE UpgradeSlots
            fresh == menu.visible /\ m0.just_clicked = None
            click_stage ==
                CASE event.kind = "CursorMoved" /\ fresh
                         /\ Cardinality(Under(m0, event.position)) = 1 -> 1
                  [] event.kind = "Pressed" /\ mlog.click_stage = 1 -> 2
                  [] event.kind = "Released" /\ mlog.click_stage = 2 -> 3
                  [] OTHER -> 0
            drag_stage ==
                CASE event.kind = "Pressed" /\ fresh
                         /\ Under(m0, m0.mouse_position) # {} -> 1
                  [] event.kind = "CursorMoved" /\ mlog.drag_stage = 1
                         /\ Under(m0, event.position) = {} -> 2
                  [] event.kind = "Released" /\ mlog.drag_stage = 2 -> 3
                  [] OTHER -> 0
            dragin_stage ==
                CASE event.kind = "Pressed" /\ fresh /\ ~m0.mouse_pressed
                         /\ Under(m0, m0.mouse_position) = {} -> 1
                  [] event.kind = "CursorMoved" /\ mlog.dragin_stage = 1
                         /\ Cardinality(Under(m0, event.position)) = 1 -> 2
                  [] event.kind = "Released" /\ mlog.dragin_stage = 2 -> 3
                  [] OTHER -> 0
        IN  /\ menu' = IF menu.kind = "pause"
                       THEN PauseMenu_handle_input(menu, event, first)
                       ELSE UpgradeMenu_handle_input(menu, event, first)
            /\ mlog' = [MenuLog0 EXCEPT
                          !.op = "input",
                          !.click_stage = click_stage,
                          !.click_w = IF click_stage = 1
                                      THEN CHOOSE id \in Under(m0, event.position) : TRUE
                                      ELSE IF click_stage > 1 THEN mlog.click_w ELSE "",
                          !.drag_stage = drag_stage,
                          !.dragin_stage = dragin_stage,
                          !.dragin_w = IF dragin_stage = 2
                                       THEN CHOOSE id \in Under(m0, event.position) : TRUE
                                       ELSE IF dragin_stage = 3 THEN mlog.dragin_w ELSE "",
                          !.pending = IF menu.visible THEN m1.just_clicked ELSE None,
                          !.queries = IF menu.visible THEN QueryLog(m1, ids) ELSE <<>>]
            /\ UNCHANGED <<pureVars, rendVars, timerVars, textVars, appVars>>

HandleInput == HandleInputOf(Events)

\* PauseMenu::get_last_action / UpgradeMenu::get_last_action
GetLastAction ==
    /\ menu' = get_last_action(menu).pm
    /\ mlog' = [MenuLog0 EXCEPT !.op = "get_last_action",
                                !.action = get_last_action(menu).ret]
    /\ UNCHANGED <<pureVars, rendVars, timerVars, textVars, appVars>>

\* PauseMenu::resize / UpgradeMenu::resize
Resize ==
    \E resolution \in WindowSizes :
        /\ menu' = IF menu.kind = "pause" THEN PauseMenu_resize(menu, resolution)
                   ELSE UpgradeMenu_resize(menu, resolution)
        /\ mlog' = [MenuLog0 EXCEPT !.op = "layout"]
        /\ UNCHANGED <<pureVars, rendVars, timerVars, textVars, appVars>>

\* PauseMenu::render / UpgradeMenu::render
Render ==
    /\ menu' = Menu_render(menu).pm
    /\ mlog' = [MenuLog0 EXCEPT !.op = "render", !.draws = Menu_render(menu).draws]
    /\ UNCHANGED <<pureVars, rendVars, timerVars, textVars, appVars>>

Next == Show \/ Hide \/ HandleInput \/ GetLastAction \/ Resize

Spec == Init /\ [][Next]_vars

(***************************************************************************)
(* MenuRenderSpec: the menu shown, hidden, resized, hovered and rendered.  *)
(***************************************************************************)

\* handle_input with cursor movement only
HandleMove == HandleInputOf({CursorMoved(p) : p \in MousePoints})

MenuRenderNext == Show \/ Hide \/ HandleMove \/ Resize \/ Render

MenuRenderSpec == Init /\ [][MenuRenderNext]_vars

(***************************************************************************)
(* QuerySpec: the ButtonManager of a menu driven directly, handle_input    *)
(* and is_button_clicked called one at a time.                             *)
(***************************************************************************)

\* ButtonManager::handle_input on the menu's manager
ManagerInput ==
    \E event \in Events :
      \E first \in (IF ClickCandidates(menu.button_manager) = {} THEN {""}
                    ELSE ClickCandidates(menu.button_manager)) :
        /\ menu' = [menu EXCEPT !.button_manager = handle_input(@, event, first)]
        /\ mlog' = [MenuLog0 EXCEPT !.op = "manager_input"]
        /\ UNCHANGED <<pureVars, rendVars, timerVars, textVars, appVars>>

\* The ids is_button_clicked is asked about: every widget id of both menus
QueryIds ==
    {"resume", "settings", "toggle_test_mode", "restart", "quit_menu", "debug",
     "upgrade_1", "upgrade_2", "upgrade_3"}

\* ButtonManager::is_button_clicked(id) on the menu's manager; prev_ret is what the
\* call immediately before this one returned (FALSE when the last operation was not a
\* call of is_button_clicked)
IsButtonClicked ==
    \E id \in QueryIds :
        LET res == is_button_clicked(menu.button_manager, id)
        IN  /\ menu' = [menu EXCEPT !.button_manager = res.m]
            /\ mlog' = [MenuLog0 EXCEPT
                          !.op = "query",
                          !.queries =
                              <<[id |-> id, before |-> menu.button_manager.just_clicked,
                                 ret |-> res.ret, after |-> res.m.just_clicked,
                                 prev_ret |-> mlog.op = "query" /\ mlog.queries[1].ret]>>]
            /\ UNCHANGED <<pureVars, rendVars, timerVars, textVars, appVars>>

QueryNext == Show \/ ManagerInput \/ IsButtonClicked

QuerySpec == Init /\ [][QueryNext]_vars

\* C3: is_button_clicked(id) returns true exactly when the pending click is id's and
\* then clears it, so the call immediately after a call that returned true returns
\* false; a call whose id does not match the pending click returns false and leaves
\* the pending click unchanged.
C3_QueryConsumes ==
    mlog.op = "query" =>
        LET q == mlog.queries[1]
        IN  /\ q.ret = (q.before = Some(q.id))
            /\ q.ret => q.after = None
            /\ q.prev_ret => ~q.ret
            /\ ~q.ret => q.after = q.before
            /\ menu.button_manager.just_clicked = q.after

C3_Witness ==
    /\ mlog.op = "query"
    /\ mlog.queries[1].prev_ret
    /\ ~mlog.queries[1].ret
    /\ mlog.queries[1].before = None

\* C1: after "cursor moves inside the only widget W under it (no click pending), left
\* press, left release", exactly one click is pending after the release and it is W's:
\* is_button_clicked(W) returns true and is_button_clicked of every other id false.
C1_ClickIsForW ==
    mlog.click_stage = 3 =>
        /\ mlog.pending = Some(mlog.click_w)
        /\ \A i \in 1..Len(mlog.queries) :
              mlog.queries[i].ret = (mlog.queries[i].id = mlog.click_w)

\* C2: after "left press with the cursor inside a widget (no click pending), cursor
\* moves outside every widget, left release", no click is registered: just_clicked
\* is empty after the release and every is_button_clicked returns false.
C2_NoClickAfterDragOut ==
    mlog.drag_stage = 3 =>
        /\ mlog.pending = None
        /\ \A i \in 1..Len(mlog.queries) : ~mlog.queries[i].ret
        /\ menu.button_manager.just_clicked = None

C2_Witness ==
    /\ mlog.drag_stage = 3
    /\ menu.visible
    /\ ~menu.button_manager.mouse_pressed
    /\ Under(menu.button_manager, menu.button_manager.mouse_position) = {}

\* C4: a widget that is not visible or not enabled has interaction state Disabled.
C4_HiddenIsDisabled ==
    \A id \in DOMAIN menu.button_manager.buttons :
        LET button == menu.button_manager.buttons[id]
        IN  (~button.visible \/ ~button.enabled) => button.state = "Disabled"

\* The order in which the constructors add the widgets
AddedOrder ==
    IF menu.kind = "pause"
    THEN <<"resume", "settings", "toggle_test_mode", "restart", "quit_menu", "debug">>
    ELSE <<"upgrade_1", "upgrade_2", "upgrade_3">>

\* The rectangle queue C10 describes: the container if there is one, then one
\* rectangle per visible widget in AddedOrder
ExpectedRectangles ==
    LET m == menu.button_manager
        shown == SelectSeq(AddedOrder, LAMBDA id : m.buttons[id].visible)
    IN  (IF m.container_rect = None THEN <<>> ELSE <<m.container_rect[1]>>)
        \o [i \in 1..Len(shown) |-> ButtonRectangle(m.buttons[shown[i]])]

PassRank(pass) ==
    CASE pass = "rectangles" -> 1 [] pass = "icons" -> 2 [] pass = "text" -> 3

\* C10: a render submits its draws in the order rectangles, icons, text, and the
\* rectangle queue it draws is the optional container rectangle followed by one
\* rectangle per visible widget in the order the widgets were added.
C10_RenderOrder ==
    mlog.op = "render" =>
        LET r == menu.button_manager.rectangle_renderer
            d == mlog.draws
        IN  /\ r.rectangles = ExpectedRectangles
            /\ \A i, j \in 1..Len(d) : i < j => PassRank(d[i].pass) < PassRank(d[j].pass)
            /\ d[Len(d)].pass = "text"
            /\ r.rectangles # <<>> =>
                  /\ d[1].pass = "rectangles"
                  /\ d[1].index_count = 6 * Len(r.rectangles)
                  /\ d[1].buffer = Some(RectangleVertices(r.rectangles, r.window_width,
                                                          r.window_height))

C10_Witness ==
    /\ mlog.op = "render"
    /\ menu.visible
    /\ menu.button_manager.container_rect # None
    /\ Len(menu.button_manager.rectangle_renderer.rectangles) = 4
    /\ Len(mlog.draws) = 3

(***************************************************************************)
(* TextSpec: a TextRenderer driven through create_text_buffer,             *)
(* update_style and update_position, and through the per-frame text update *)
(* of game.rs.  xlog records the last call, its arguments, the Results it  *)
(* returned and the renderer before it.                                    *)
(***************************************************************************)

\* update_text_content of game.rs: store the new text, re-apply the stored style
update_text_content(tr, id, new_text) ==
    IF id \in DOMAIN tr.text_buffers
    THEN update_style([tr EXCEPT !.text_buffers[id].text_content = new_text], id,
                      tr.text_buffers[id].style)
    ELSE tr

\* The timer colour step of update_game_ui
UpdateTimerColor(tr, timer_color) ==
    IF "main_timer" \in DOMAIN tr.text_buffers
    THEN update_style(tr, "main_timer",
                      [tr.text_buffers["main_timer"].style EXCEPT !.color = timer_color])
    ELSE tr

\* update_game_ui, the text updates: every Result is dropped (let _ =)
update_game_ui(tr, timer_text, timer_color, level_text, score_text) ==
    update_text_content(
        update_text_content(
            UpdateTimerColor(update_text_content(tr, "main_timer", timer_text),
                             timer_color),
            "level", level_text),
        "score", score_text)

\* The buffers update_game_ui writes, in the order it writes them
GameUiIds == <<"main_timer", "level", "score">>

\* The ids the calls are given: two of the game's buffers ("level" is never created)
TextIds == {"main_timer", "score"}

TextTexts == {"00:59", "Score: 0"}

TextStyles ==
    {None, Some(DefaultButtonTextStyle),
     Some([TextStyle_default EXCEPT !.font_size = Px(24), !.line_height = Px(28)])}

TextPositions == {None, Some(TextPosition(Px(10), Px(10), Px(200), Px(50)))}

TextLog0 ==
    [op |-> "new", id |-> "", text |-> <<>>, style |-> None, position |-> None,
     ret |-> <<>>, before |-> None]

TextInit ==
    /\ \E loaded_fonts \in {{}, {"HankenGrotesk"}} :
          texts = TextRenderer_new([width |-> 1920, height |-> 1080], loaded_fonts)
    /\ xlog = TextLog0
    /\ app = None /\ alog = None
    /\ probe = None
    /\ rr = None /\ ir = None /\ rlog = None
    /\ timer = None /\ now = 0 /\ tlog = None
    /\ menu = None /\ mlog = None

\* text_renderer.create_text_buffer(id, text, style, position)
CreateTextBuffer ==
    /\ \E id \in TextIds, text \in TextTexts, style \in TextStyles,
          position \in TextPositions :
            /\ texts' = create_text_buffer(texts, id, text, style, position)
            /\ xlog' = [TextLog0 EXCEPT !.op = "create_text_buffer", !.id = id,
                                        !.text = <<text>>, !.style = style,
                                        !.position = position, !.before = texts]
    /\ UNCHANGED <<pureVars, rendVars, timerVars, menuVars, appVars>>

\* text_renderer.update_style(id, style)
UpdateStyle ==
    /\ \E id \in TextIds, style \in TextStyles :
            /\ texts' = update_style(texts, id, unwrap_or(style, TextStyle_default))
            /\ xlog' = [TextLog0 EXCEPT !.op = "update_style", !.id = id,
                                        !.style = Some(unwrap_or(style, TextStyle_default)),
                                        !.ret = <<BufferResult(texts, id)>>,
                                        !.before = texts]
    /\ UNCHANGED <<pureVars, rendVars, timerVars, menuVars, appVars>>

\* text_renderer.update_position(id, position)
UpdatePosition ==
    /\ \E id \in TextIds, position \in TextPositions :
            /\ texts' = update_position(texts, id,
                                        unwrap_or(position, TextPosition_default))
            /\ xlog' = [TextLog0 EXCEPT !.op = "update_position", !.id = id,
                                        !.position =
                                            Some(unwrap_or(position, TextPosition_default)),
                                        !.ret = <<BufferResult(texts, id)>>,
                                        !.before = texts]
    /\ UNCHANGED <<pureVars, rendVars, timerVars, menuVars, appVars>>

\* update_game_ui(text_renderer, game_ui, ..): the texts and the timer colour are
\* game_ui's
UpdateGameUi ==
    /\ \E timer_text \in {"00:59", "00:58"} :
            /\ texts' = update_game_ui(texts, timer_text, rgb(255, 0, 0),
                                       "Level: 1", "Score: 0")
            /\ xlog' = [TextLog0 EXCEPT !.op = "update_game_ui",
                                        !.text = <<timer_text, "Level: 1", "Score: 0">>,
                                        !.ret = [i \in 1..3 |->
                                                    BufferResult(texts, GameUiIds[i])],
                                        !.before = texts]
    /\ UNCHANGED <<pureVars, rendVars, timerVars, menuVars, appVars>>

TextNext == CreateTextBuffer \/ UpdateStyle \/ UpdatePosition \/ UpdateGameUi

TextSpec == TextInit /\ [][TextNext]_vars

\* C11: update_style and update_position with an id that has no text buffer return
\* Err and leave the buffer map as it was (no buffer created, none altered), a found
\* id returns Ok and creates none; update_game_ui goes on after a failed update: each
\* of its three buffers that exists carries its new text, a missing one stays missing.
C11_UnknownIdIsErr ==
    /\ xlog.op \in {"update_style", "update_position"} =>
          IF xlog.id \in DOMAIN xlog.before.text_buffers
          THEN /\ xlog.ret = <<"Ok">>
               /\ DOMAIN texts.text_buffers = DOMAIN xlog.before.text_buffers
          ELSE /\ xlog.ret = <<"Err">>
               /\ texts = xlog.before
    /\ xlog.op = "update_game_ui" =>
          /\ DOMAIN texts.text_buffers = DOMAIN xlog.before.text_buffers
          /\ \A i \in 1..3 :
                IF GameUiIds[i] \in DOMAIN xlog.before.text_buffers
                THEN /\ xlog.ret[i] = "Ok"
                     /\ texts.text_buffers[GameUiIds[i]].text_content = xlog.text[i]
                     /\ texts.text_buffers[GameUiIds[i]].buffer.text = xlog.text[i]
                ELSE xlog.ret[i] = "Err"

\* An update of a missing id while another buffer exists
C11_Witness ==
    /\ xlog.op \in {"update_style", "update_position"}
    /\ xlog.ret = <<"Err">>
    /\ DOMAIN texts.text_buffers # {}

\* After create_text_buffer(id, text, style, position): the buffers are those of
\* before and id, the buffer of id is visible and carries the text, the given style
\* and the position (the defaults for None), and every other buffer is as it was
CreatedWith(style) ==
    xlog.op = "create_text_buffer" =>
        /\ DOMAIN texts.text_buffers = DOMAIN xlog.before.text_buffers \cup {xlog.id}
        /\ texts.text_buffers[xlog.id].text_content = xlog.text[1]
        /\ texts.text_buffers[xlog.id].buffer.text = xlog.text[1]
        /\ texts.text_buffers[xlog.id].style = style
        /\ texts.text_buffers[xlog.id].buffer.attrs = Attrs_new(style)
        /\ texts.text_buffers[xlog.id].buffer.metrics = Metrics_new(style)
        /\ texts.text_buffers[xlog.id].position =
              unwrap_or(xlog.position, TextPosition_default)
        /\ texts.text_buffers[xlog.id].visible
        /\ \A other \in DOMAIN xlog.before.text_buffers \ {xlog.id} :
              texts.text_buffers[other] = xlog.before.text_buffers[other]

\* C12 as stated: create_text_buffer overwrites any prior buffer of the id; afterwards
\* the one buffer of the id carries the new text, the new style and the new position
\* and is visible, and every other buffer is unchanged.
C12_CreateCarriesStyle == CreatedWith(unwrap_or(xlog.style, TextStyle_default))

\* C12, amended: as above, but the style carried is the new style after the font
\* fallback: its family is "DejaVu Sans" when it asked for "HankenGrotesk" and that
\* font was not loaded.
C12_CreateOverwrites ==
    CreatedWith(FontFallback(xlog.before, unwrap_or(xlog.style, TextStyle_default)))

\* A create over an existing, different buffer while another buffer exists
C12_Witness ==
    /\ xlog.op = "create_text_buffer"
    /\ xlog.id \in DOMAIN xlog.before.text_buffers
    /\ texts.text_buffers[xlog.id].style # xlog.before.text_buffers[xlog.id].style
    /\ texts.text_buffers[xlog.id].text_content
          # xlog.before.text_buffers[xlog.id].text_content
    /\ DOMAIN texts.text_buffers # {xlog.id}

\* C13: update_style(id, s) never changes the stored text and shapes the layout from
\* it, and it is idempotent: a second update_style(id, s) leaves the text, the style,
\* the position and the layout as the first call left them.
C13_UpdateStyleIdempotent ==
    (xlog.op = "update_style" /\ xlog.ret = <<"Ok">>) =>
        /\ texts.text_buffers[xlog.id].text_content
              = xlog.before.text_buffers[xlog.id].text_content
        /\ texts.text_buffers[xlog.id].buffer.text
              = xlog.before.text_buffers[xlog.id].text_content
        /\ texts.text_buffers[xlog.id].position
              = xlog.before.text_buffers[xlog.id].position
        /\ update_style(texts, xlog.id, xlog.style[1]) = texts
        /\ update_style(update_style(xlog.before, xlog.id, xlog.style[1]),
                        xlog.id, xlog.style[1]) = texts

\* An update_style that changed the style and the metrics of the layout
C13_Witness ==
    /\ xlog.op = "update_style"
    /\ xlog.ret = <<"Ok">>
    /\ texts.text_buffers[xlog.id].style # xlog.before.text_buffers[xlog.id].style
    /\ texts.text_buffers[xlog.id].buffer.metrics
          # xlog.before.text_buffers[xlog.id].buffer.metrics

\* The x, y, width and height of every widget of a menu, and its container rectangle
Geometry(pm) ==
    [buttons |-> [id \in DOMAIN pm.button_manager.buttons |->
                     [x |-> pm.button_manager.buttons[id].position.x,
                      y |-> pm.button_manager.buttons[id].position.y,
                      width |-> pm.button_manager.buttons[id].position.width,
                      height |-> pm.button_manager.buttons[id].position.height]],
     container_rect |-> pm.button_manager.container_rect]

\* What the layout gives for a window size alone: the geometry of a menu built for
\* that size, shown, and laid out by resize for that size
FromScratch(kind, window_size) ==
    IF kind = "pause"
    THEN Geometry(PauseMenu_resize(
                      PauseMenu_new(window_size, {"HankenGrotesk"}, {"blank_icon"}),
                      window_size))
    ELSE Geometry(UpgradeMenu_resize(
                      UpgradeMenu_show(
                          UpgradeMenu_new(window_size, {"HankenGrotesk"}, {"blank_icon"})),
                      window_size))

\* C14: a resize recomputes the layout from scratch: after PauseMenu::resize or
\* UpgradeMenu::resize to a window size, whatever came before, every widget's x, y,
\* width and height and the container rectangle are those the layout gives for that
\* size alone.
C14_ResizeFromScratch ==
    [][(\E resolution \in WindowSizes :
            menu' = IF menu.kind = "pause" THEN PauseMenu_resize(menu, resolution)
                    ELSE UpgradeMenu_resize(menu, resolution))
       => Geometry(menu') = FromScratch(menu'.kind, menu'.button_manager.window_size)]_vars

(***************************************************************************)
(* ClickSpec: a menu shown, hidden, clicked and asked for its action, with *)
(* a cursor position over the debug widget of the 1920x1080 pause menu.    *)
(***************************************************************************)

\* (700, 320) is inside a row widget or an upgrade slot, (70, 1000) inside debug
ClickPoints == MousePoints \cup {<<Px(70), Px(1000)>>}

ClickEvents == {LeftPressed, LeftReleased} \cup {CursorMoved(p) : p \in ClickPoints}

HandleClick == HandleInputOf(ClickEvents)

ClickNext == Show \/ Hide \/ HandleClick \/ GetLastAction

ClickSpec == Init /\ [][ClickNext]_vars

\* The action the claim gives a click on a widget
ActionOfClick(id) ==
    CASE id = "resume" -> "Resume"
      [] id = "settings" -> "Settings"
      [] id = "restart" -> "Restart"
      [] id = "quit_menu" -> "QuitToMenu"
      [] id = "toggle_test_mode" -> "ToggleTestMode"
      [] id = "upgrade_1" -> "SelectUpgrade1"
      [] id = "upgrade_2" -> "SelectUpgrade2"
      [] id = "upgrade_3" -> "SelectUpgrade3"

GameUIManager_started(t) ==
    [timer |-> Some(GameTimer_start(GameTimer_new(t), t)), level |-> 1, score |-> 0]

\* GameUIManager::pause_timer at clock reading t
pause_timer(game_ui, t) ==
    IF game_ui.timer = None THEN game_ui
    ELSE [game_ui EXCEPT !.timer = Some(GameTimer_pause(@[1], t))]

\* GameUIManager::resume_timer at clock reading t
resume_timer(game_ui, t) ==
    IF game_ui.timer = None THEN game_ui
    ELSE [game_ui EXCEPT !.timer = Some(GameTimer_resume(@[1], t))]

\* GameUIManager::update_timer at clock reading t (the value returned is dropped by
\* handle_redraw)
update_timer(game_ui, t) ==
    IF game_ui.timer = None THEN game_ui
    ELSE [game_ui EXCEPT !.timer = Some(GameTimer_update(@[1], t).tm)]

\* AppState::new: GameState::new() has current_screen Loading; test_mode is given
AppState_new(window_size, test_mode, t) ==
    [pause_menu |-> PauseMenu_new(window_size, {"HankenGrotesk"}, {"blank_icon"}),
     upgrade_menu |-> UpgradeMenu_new(window_size, {"HankenGrotesk"}, {"blank_icon"}),
     game_state |-> [current_screen |-> "Loading",
                     test_mode |-> test_mode,
                     game_ui |-> GameUIManager_started(t)],
     exiting |-> FALSE]

\* WindowEvent::KeyboardInput with a pressed or released physical key
KeyboardInput(state, code) == [kind |-> "KeyboardInput", state |-> state, code |-> code]

RedrawRequested == [kind |-> "RedrawRequested"]

CloseRequested == [kind |-> "CloseRequested"]

\* window_event: the match on pause_menu.get_last_action()
PauseAction(a, action, t) ==
    CASE action = "Resume" ->
             [a EXCEPT !.game_state.current_screen = "Game",
                       !.game_state.game_ui = resume_timer(@, t)]
      [] action = "ToggleTestMode" -> [a EXCEPT !.game_state.test_mode = ~@]
      [] action = "QuitToMenu" -> [a EXCEPT !.exiting = TRUE]
      [] OTHER -> a

\* Whether window_event forwards the event to the pause menu
ForwardsToPause(a) == a.game_state.current_screen = "Pause" /\ a.pause_menu.visible

\* window_event: the pause menu block
PauseInput(a, event, first, t) ==
    IF ForwardsToPause(a)
    THEN PauseAction(
             [a EXCEPT !.pause_menu =
                 get_last_action(PauseMenu_handle_input(@, event, first)).pm],
             get_last_action(PauseMenu_handle_input(a.pause_menu, event, first)).ret,
             t)
    ELSE a

\* Whether window_event forwards the event to the upgrade menu
ForwardsToUpgrade(a) == a.game_state.current_screen = "Upgrade" /\ a.upgrade_menu.visible

\* window_event: the upgrade menu block (the actions only print)
UpgradeInput(a, event, first) ==
    IF ForwardsToUpgrade(a)
    THEN [a EXCEPT !.upgrade_menu =
             get_last_action(UpgradeMenu_handle_input(@, event, first)).pm]
    ELSE a

\* window_event: the Escape key
EscapePressed(a, t) ==
    IF a.game_state.current_screen = "Pause"
    THEN [a EXCEPT !.game_state.current_screen = "Game",
                   !.game_state.game_ui = resume_timer(@, t)]
    ELSE [a EXCEPT !.game_state.current_screen = "Pause",
                   !.game_state.game_ui = pause_timer(@, t)]

\* window_event: the keyboard block
Keyboard(a, event, t) ==
    IF event.kind = "KeyboardInput" /\ event.state = "Pressed"
    THEN CASE event.code = "Escape" -> EscapePressed(a, t)
           [] event.code = "KeyU" -> [a EXCEPT !.game_state.current_screen = "Upgrade"]
           [] OTHER -> a
    ELSE a

RECURSIVE Dashes(_, _, _)
\* handle_redraw: the dashes of the centre line, from y down to the height h
Dashes(w, h, y) ==
    IF y >= h THEN <<>>
    ELSE <<Rectangle_new(Half(w) - Half(Px(3)), y, Px(3), Min2(Px(16), h - y),
                         <<26, 255, 26, 217>>)>>
         \o Dashes(w, h, y + Px(28))

RECURSIVE AddRectangles(_, _)
\* for dash in dashes { renderer.add_rectangle(dash) }
AddRectangles(r, rectangles) ==
    IF rectangles = <<>> THEN r
    ELSE AddRectangles(add_rectangle(r, Head(rectangles)), Tail(rectangles))

\* handle_redraw: the centre line, drawn with the pause menu's rectangle renderer
\* when the debug panel is on
CenterLine(pm) ==
    IF pm.show_debug_panel
    THEN [pm EXCEPT !.button_manager.rectangle_renderer =
            RectangleRenderer_render(
                AddRectangles(@, Dashes(Px(pm.button_manager.window_size.width),
                                        Px(pm.button_manager.window_size.height), 0))).r]
    ELSE pm

\* handle_redraw: the overlay over the whole surface, added to the menu's rectangle
\* renderer and rendered (0.08, 0.09, 0.11, 0.88 in 255ths)
Overlay(pm) ==
    [pm EXCEPT !.button_manager.rectangle_renderer =
        RectangleRenderer_render(
            add_rectangle(@, Rectangle_new(0, 0, Px(pm.button_manager.window_size.width),
                                           Px(pm.button_manager.window_size.height),
                                           <<20, 23, 28, 224>>))).r]

\* handle_redraw: a menu that is not on screen
Hidden(pm) ==
    [pm EXCEPT !.button_manager.rectangle_renderer = clear_rectangles(@)]

\* handle_redraw: the pause menu block
RedrawPause(pm, current_screen, test_mode) ==
    IF current_screen = "Pause"
    THEN Menu_render(Overlay(PauseMenu_show(pm, test_mode))).pm
    ELSE Hidden(PauseMenu_hide(pm))

\* The upgrade menu block showing the menu on every screen
RedrawUpgrade_always(pm, current_screen) ==
    Menu_render(Overlay(UpgradeMenu_show(pm))).pm

\* handle_redraw: the upgrade menu block
RedrawUpgrade(pm, current_screen) ==
    IF current_screen = "Upgrade"
    THEN Menu_render(Overlay(UpgradeMenu_show(pm))).pm
    ELSE Hidden(UpgradeMenu_hide(pm))

\* App::handle_redraw; completes is FALSE when the window is minimized or the surface
\* is outdated, and the function returns before drawing
handle_redraw(a, t, completes) ==
    IF ~completes THEN a
    ELSE [a EXCEPT
            !.game_state.game_ui = update_timer(@, t),
            !.pause_menu = RedrawPause(CenterLine(@), a.game_state.current_screen,
                                       a.game_state.test_mode),
            !.upgrade_menu = RedrawUpgrade(@, a.game_state.current_screen)]

\* window_event: the final match on the event
Dispatch(a, event, t, completes) ==
    CASE event.kind = "CloseRequested" -> [a EXCEPT !.exiting = TRUE]
      [] event.kind = "RedrawRequested" -> handle_redraw(a, t, completes)
      [] OTHER -> a

\* App::window_event (ApplicationHandler) at clock reading t
window_event(a, event, first_pause, first_upgrade, t, completes) ==
    Dispatch(Keyboard(UpgradeInput(PauseInput(a, event, first_pause, t),
                                   event, first_upgrade),
                      event, t),
             event, t, completes)

(***************************************************************************)
(* AppSpec: the application on a 1360x756 window, given cursor moves, left *)
(* presses and releases, Escape and U key events, redraw requests and the  *)
(* close request, while the clock advances.                                *)
(***************************************************************************)

MaxAppNow == 60

\* The clock advances by the timer's whole duration: the timer expires unless paused
AppClockStep == DefaultDuration

\* (700, 267) is inside the resume widget of the pause menu
AppPoints == {<<Px(0), Px(0)>>, <<Px(700), Px(267)>>}

AppEvents ==
    {LeftPressed, LeftReleased, RedrawRequested, CloseRequested,
     KeyboardInput("Pressed", "Escape"), KeyboardInput("Pressed", "KeyU"),
     KeyboardInput("Released", "Escape")}
    \cup {CursorMoved(p) : p \in AppPoints}

\* The Pressed buttons of a manager, or "" when there is none
FirstOf(m) == IF ClickCandidates(m) = {} THEN {""} ELSE ClickCandidates(m)

AppLog0 == [op |-> "new", forwarded |-> <<>>, completed |-> FALSE]

AppInit ==
    /\ \E test_mode \in BOOLEAN :
          app = AppState_new([width |-> 1360, height |-> 756], test_mode, 0)
    /\ alog = AppLog0
    /\ now = 0
    /\ timer = None /\ tlog = None
    /\ probe = None
    /\ rr = None /\ ir = None /\ rlog = None
    /\ menu = None /\ mlog = None
    /\ texts = None /\ xlog = None

\* The event loop delivers a WindowEvent to App::window_event
WindowEvent ==
    /\ ~app.exiting
    /\ \E event \in AppEvents, completes \in BOOLEAN,
          first_pause \in FirstOf(app.pause_menu.button_manager),
          first_upgrade \in FirstOf(app.upgrade_menu.button_manager) :
            /\ event.kind # "RedrawRequested" => completes
            /\ app' = window_event(app, event, first_pause, first_upgrade, now, completes)
            /\ alog' = [op |-> "window_event",
                        forwarded |->
                            (IF ForwardsToPause(app) THEN <<"pause">> ELSE <<>>)
                            \o (IF ForwardsToUpgrade(PauseInput(app, event, first_pause, now))
                                THEN <<"upgrade">> ELSE <<>>),
                        completed |-> event.kind = "RedrawRequested" /\ completes]
    /\ UNCHANGED <<now, timer, tlog, pureVars, rendVars, menuVars, textVars>>

\* Time passes
AppTick ==
    /\ ~app.exiting
    /\ now < MaxAppNow
    /\ now' = now + AppClockStep
    /\ alog' = [AppLog0 EXCEPT !.op = "tick"]
    /\ UNCHANGED <<app, timer, tlog, pureVars, rendVars, menuVars, textVars>>

AppNext == WindowEvent \/ AppTick

AppSpec == AppInit /\ [][AppNext]_vars

\* C16: at most one of the two menus is visible; after a completed redraw the pause
\* menu is visible exactly when the screen is Pause and the upgrade menu exactly when
\* it is Upgrade; a window event is forwarded to at most one menu; and handle_input
\* on a menu that is not visible leaves the whole menu (widget states, mouse state and
\* pending click) as it was, whatever the event.
C16_MenuExclusive ==
    /\ ~(app.pause_menu.visible /\ app.upgrade_menu.visible)
    /\ (alog.op = "window_event" /\ alog.completed) =>
          /\ app.pause_menu.visible <=> app.game_state.current_screen = "Pause"
          /\ app.upgrade_menu.visible <=> app.game_state.current_screen = "Upgrade"
    /\ Len(alog.forwarded) <= 1
    /\ ~app.pause_menu.visible =>
          \A event \in AppEvents, first \in DOMAIN app.pause_menu.button_manager.buttons :
              PauseMenu_handle_input(app.pause_menu, event, first) = app.pause_menu
    /\ ~app.upgrade_menu.visible =>
          \A event \in AppEvents, first \in DOMAIN app.upgrade_menu.button_manager.buttons :
              UpgradeMenu_handle_input(app.upgrade_menu, event, first) = app.upgrade_menu

\* A completed redraw on the Upgrade screen that hid a pause menu the cursor had used
C16_Witness ==
    /\ alog.op = "window_event"
    /\ alog.completed
    /\ app.game_state.current_screen = "Upgrade"
    /\ app.upgrade_menu.visible
    /\ ~app.pause_menu.visible
    /\ app.pause_menu.button_manager.mouse_position # <<Px(0), Px(0)>>

\* C17: on the screens Game, Pause and Upgrade the game timer is paused exactly when
\* the current screen is Pause.
C17_PausedIffPause ==
    app.game_state.current_screen \in {"Game", "Pause", "Upgrade"} =>
        (app.game_state.game_ui.timer[1].paused_at # None
            <=> app.game_state.current_screen = "Pause")

(***************************************************************************)
(* ScaleSpec: a menu shown, moved over, pressed, released and rendered.    *)
(***************************************************************************)

ScaleNext == Show \/ HandleClick \/ Render

ScaleSpec == Init /\ [][ScaleNext]_vars

\* The scale factor the claims give a widget: 1.1 on Hover and 1.05 on Pressed for a
\* Tall widget, 1 otherwise
ClaimedScale(button) ==
    IF button.style.spacing.kind = "Tall"
    THEN CASE button.state = "Hover" -> <<110, 100>>
           [] button.state = "Pressed" -> <<105, 100>>
           [] OTHER -> <<100, 100>>
    ELSE <<100, 100>>

\* The visible widgets in the order render queues them
ShownOrder == SelectSeq(AddedOrder, LAMBDA id : menu.button_manager.buttons[id].visible)

\* The rectangle render queued for the i-th visible widget
QueuedRectangle(i) ==
    menu.button_manager.rectangle_renderer.rectangles[
        i + (IF menu.button_manager.container_rect = None THEN 0 ELSE 1)]

\* A 200 x 100 Tall widget at the origin, in a state
TallExample(state) ==
    [with_position(with_style(Button_new("example", "Example"),
                              [ButtonStyle_default EXCEPT !.spacing = Tall(<<1, 2>>)]),
                   ButtonPosition_new(0, 0, Px(200), Px(100)))
        EXCEPT !.state = state]

\* C18: the rectangle render queues for a widget has the size (width * s, height * s)
\* and the centre of the unscaled widget, with s = 1.1 for a Tall widget on Hover, 1.05
\* for a Tall widget Pressed and 1 otherwise (Wrap and Hbar widgets in every state); a
\* 200 x 100 Tall widget is queued as 220 x 110 on Hover.
C18_TallRectangleScale ==
    /\ ButtonRectangle(TallExample("Hover")).width = Px(220)
    /\ ButtonRectangle(TallExample("Hover")).height = Px(110)
    /\ ButtonRectangle(TallExample("Pressed")).width = Px(210)
    /\ ButtonRectangle(TallExample("Normal")).width = Px(200)
    /\ mlog.op = "render" =>
          \A i \in 1..Len(ShownOrder) :
              LET button == menu.button_manager.buttons[ShownOrder[i]]
                  actual == calculate_actual_position(button.position)
                  s == ClaimedScale(button)
              IN  /\ QueuedRectangle(i).width * s[2] = button.position.width * s[1]
                  /\ QueuedRectangle(i).height * s[2] = button.position.height * s[1]
                  /\ 2 * QueuedRectangle(i).x + QueuedRectangle(i).width
                        = 2 * actual[1] + button.position.width
                  /\ 2 * QueuedRectangle(i).y + QueuedRectangle(i).height
                        = 2 * actual[2] + button.position.height

\* A render of a Tall widget on Hover next to a Tall widget in state Normal
C18_Witness ==
    /\ mlog.op = "render"
    /\ menu.kind = "upgrade"
    /\ menu.visible
    /\ \E id \in DOMAIN menu.button_manager.buttons :
          menu.button_manager.buttons[id].state = "Hover"
    /\ \E id \in DOMAIN menu.button_manager.buttons :
          menu.button_manager.buttons[id].state = "Normal"

\* v is the value base scaled by s, to within the one milli-pixel the arithmetic rounds by
ScaledBy(v, base, s) ==
    /\ v * s[2] - base * s[1] < 2 * s[2]
    /\ base * s[1] - v * s[2] < 2 * s[2]

\* What one scale factor s applied about the centre of a Tall widget gives its primary
\* text block: the font size, the wrap box and the offset of its top from the centre
TextBlockScaled(button, text_buffer, s) ==
    LET actual == calculate_actual_position(button.position)
        button_center_y == actual[2] + Half(button.position.height)
    IN  /\ ScaledBy(text_buffer.style.font_size, button.style.text_style.font_size, s)
        /\ ScaledBy(text_buffer.style.line_height,
                    button.style.text_style.line_height, s)
        /\ ScaledBy(text_buffer.position.max_width[1],
                    button.position.width - 2 * button.style.padding[1], s)
        /\ ScaledBy(text_buffer.position.y - button_center_y,
                    actual[2] + button.style.padding[2] - button_center_y, s)

\* The same for the icon: its side, centred across the widget, its top on the centre line
IconScaled(button, icon, s) ==
    LET actual == calculate_actual_position(button.position)
    IN  /\ ScaledBy(2 * icon.x + icon.width, 2 * actual[1] + button.position.width,
                    <<1, 1>>)
        /\ icon.y = actual[2] + Half(button.position.height)
        /\ icon.width = icon.height
        /\ ScaledBy(icon.width,
                    Min2(button.position.width - 2 * Px(16),
                         Times(button.position.height, <<4, 10>>)), s)

\* C19: for a Tall widget in any state one and the same scale factor (1 when Normal,
\* 1.1 on Hover, 1.05 when Pressed) is applied to the icon footprint and to the primary
\* text block (font size, line height, wrap box, offset from the centre), each about
\* the widget's centre, as it is to the drawn rectangle.
C19_OneScaleFactor ==
    (mlog.op = "input" /\ menu.kind = "upgrade" /\ menu.visible) =>
        \A i \in 1..Len(ShownOrder) :
            LET button == menu.button_manager.buttons[ShownOrder[i]]
            IN  /\ IconScaled(button, menu.button_manager.icon_renderer.icons[i],
                              ClaimedScale(button))
                /\ TextBlockScaled(
                       button,
                       menu.button_manager.text_renderer.text_buffers[button.text_id],
                       ClaimedScale(button))


(***************************************************************************)
(* StyleSpec: the ButtonManager of a menu driven directly while the menu   *)
(* is shown and hidden, so that update_button_states also runs on widgets  *)
(* that are not visible.                                                   *)
(***************************************************************************)

StyleNext == Show \/ Hide \/ ManagerInput

StyleSpec == Init /\ [][StyleNext]_vars

\* The (colour, weight) pair each state is said to give the primary text
ClaimedTextPair(button) ==
    CASE button.state = "Normal" ->
           <<darken(button.style.background_color, 35), button.style.text_style.weight>>
      [] button.state = "Hover" ->
           <<saturate(button.style.hover_color, 90), "BOLD">>
      [] button.state = "Pressed" ->
           <<saturate(brighten(button.style.pressed_color, 15), 35), "MEDIUM">>
      [] button.state = "Disabled" ->
           <<rgb(100, 116, 139), "NORMAL">>

\* The (colour, weight) pair of the primary text buffer of widget id in manager m
PrimaryTextPair(m, id) ==
    <<m.text_renderer.text_buffers[m.buttons[id].text_id].style.color,
      m.text_renderer.text_buffers[m.buttons[id].text_id].style.weight>>

\* Widget id is in another state after the step than before it
MovedInto(id, states) ==
    /\ menu'.button_manager.buttons[id].state # menu.button_manager.buttons[id].state
    /\ menu'.button_manager.buttons[id].state \in states

\* C20: whenever update_button_states moves a widget into a state, its primary text
\* buffer is given that state's (colour, weight) pair: Normal = darken(background,
\* 0.35) with the base weight, Hover = saturate(hover, 0.90) with bold, Pressed =
\* saturate(brighten(pressed, 0.15), 0.35) with medium, Disabled = rgb(100,116,139)
\* with normal weight.
C20_StateTextPair ==
    [][\A id \in DOMAIN menu.button_manager.buttons :
          MovedInto(id, {"Normal", "Hover", "Pressed", "Disabled"}) =>
              PrimaryTextPair(menu'.button_manager, id)
                  = ClaimedTextPair(menu'.button_manager.buttons[id])]_vars


(***************************************************************************)
(* ColorSpec: the three colour transforms applied to one colour and one    *)
(* factor (in hundredths), drawn from small sets.                          *)
(***************************************************************************)

ColorChannels == {0, 100, 200, 255}

\* Factors below 0, at 0, inside (0, 1), at 1 and above 1
ColorFactors == {-50, 0, 35, 100, 150}

ColorInit ==
    /\ \E r \in ColorChannels, g \in ColorChannels, b \in ColorChannels,
          a \in {0, 255}, factor \in ColorFactors :
            probe = [color |-> <<r, g, b, a>>, factor |-> factor, out |-> None]
    /\ rr = None /\ ir = None /\ rlog = None
    /\ timer = None /\ now = 0 /\ tlog = None
    /\ menu = None /\ mlog = None
    /\ texts = None /\ xlog = None
    /\ app = None /\ alog = None

\* darken, brighten and saturate of the colour by the factor
Transform ==
    /\ probe.out = None
    /\ probe' = [probe EXCEPT
                   !.out = Some([darken |-> darken(probe.color, probe.factor),
                                 brighten |-> brighten(probe.color, probe.factor),
                                 saturate |-> saturate(probe.color, probe.factor)])]
    /\ UNCHANGED <<rendVars, timerVars, menuVars, textVars, appVars>>

ColorNext == Transform

ColorSpec == ColorInit /\ [][ColorNext]_vars

\* The factor a clamp to [0, 1] would use
ClampedFactor(factor) == IF factor < 0 THEN 0 ELSE IF factor > 100 THEN 100 ELSE factor

\* C21: darken(c, 0) = c and darken(c, 1) = black, brighten(c, 0) = c and
\* brighten(c, 1) = white, alpha is always preserved, and for darken, brighten and
\* saturate a factor below 0 behaves as 0 and a factor above 1 as 1.
C21_ColorBounds ==
    probe.out # None =>
        LET c == probe.color
            f == probe.factor
            out == probe.out[1]
        IN  /\ f = 0 => out.darken = c /\ out.brighten = c
            /\ f = 100 => /\ out.darken = <<0, 0, 0, c[4]>>
                          /\ out.brighten = <<255, 255, 255, c[4]>>
            /\ out.darken[4] = c[4] /\ out.brighten[4] = c[4] /\ out.saturate[4] = c[4]
            /\ out.darken = darken(c, ClampedFactor(f))
            /\ out.brighten = brighten(c, ClampedFactor(f))
            /\ out.saturate = saturate(c, ClampedFactor(f))


\* update_button_states without its early exit: the loop over the widgets and the
\* refresh of the icon queue
FullReevaluation(m) == update_icon_positions(UpdateButtonStates(m, m.button_order))

\* The condition under which update_button_states returns early
ReturnsEarly(m) ==
    /\ m.mouse_position = m.last_mouse_position
    /\ m.mouse_pressed = m.last_mouse_pressed

\* C22: in every state of a shown menu in which update_button_states returns early
\* (mouse position and press flag equal to the cached values), the full per-widget
\* re-evaluation would leave every widget's state, the text styles and the icon queue
\* unchanged.
C22_EarlyExitIsPure ==
    (menu.visible /\ ReturnsEarly(menu.button_manager)) =>
        /\ FullReevaluation(menu.button_manager).buttons = menu.button_manager.buttons
        /\ FullReevaluation(menu.button_manager).text_renderer
              = menu.button_manager.text_renderer
        /\ FullReevaluation(menu.button_manager).icon_renderer.icons
              = menu.button_manager.icon_renderer.icons


\* A left press registers no click: the pending click after it is the one before it
PressRegistersNothing ==
    (/\ menu.visible
     /\ ~menu.button_manager.mouse_pressed
     /\ menu'.button_manager.mouse_pressed) =>
        mlog'.pending = menu.button_manager.just_clicked

\* After "left press outside every widget, cursor dragged onto W with the button held,
\* left release" no click is registered for W
DragInRegistersNothing ==
    mlog'.dragin_stage = 3 => mlog'.pending # Some(mlog'.dragin_w)

\* C23: a click is never registered by a press alone, and a click for widget W is
\* registered at a left-release only if the cursor was over W both when the left
\* button went down and when it was released: pressing outside W, dragging onto W
\* with the button held and releasing registers no click for W.
C23_PressThenReleaseOverTarget ==
    [][PressRegistersNothing /\ DragInRegistersNothing]_vars


\* C24: a click is registered for widget W at a left-release only if, at that moment,
\* the manager's cursor position lies inside W's current anchor-resolved bounds and W
\* is visible and enabled, whatever resizes, show() and hide() came before.
C24_ClickOnlyUnderCursor ==
    (mlog.op = "input" /\ mlog.pending # None) =>
        /\ mlog.pending[1] \in DOMAIN menu.button_manager.buttons
        /\ contains_point(menu.button_manager.buttons[mlog.pending[1]],
                          menu.button_manager.mouse_position[1],
                          menu.button_manager.mouse_position[2])


\* The colour, weight, font size and line height of a text style
StyleQuad(style) == <<style.color, style.weight, style.font_size, style.line_height>>

\* The style update_button_states derives from a widget's state and base text style
DerivedQuad(button) ==
    <<StateTextColor(button), StateTextWeight(button),
      Times(button.style.text_style.font_size, StateTextSizeScale(button)),
      Times(button.style.text_style.line_height, StateTextSizeScale(button))>>

\* C25: after every menu operation, the stored style of each visible, enabled widget's
\* primary text buffer (colour, weight, font size, line height) equals the style
\* derived from the widget's current interaction state and its current base text style.
C25_StyleFollowsState ==
    \A id \in DOMAIN menu.button_manager.buttons :
        LET button == menu.button_manager.buttons[id]
        IN  (button.visible /\ button.enabled) =>
                StyleQuad(menu.button_manager.text_renderer.text_buffers[button.text_id].style)
                    = DerivedQuad(button)


\* C26: whenever PauseMenu::handle_input or UpgradeMenu::handle_input has returned,
\* the manager's pending click (just_clicked) is empty, and a click is translated by
\* at most one is_button_clicked query: none answers true without a click registered
\* by that event, so no click is re-reported on a later event or after hide()/show().
C26_NoClickLeak ==
    /\ menu.button_manager.just_clicked = None
    /\ Cardinality({i \in 1..Len(mlog.queries) : mlog.queries[i].ret}) <= 1
    /\ mlog.pending = None => \A i \in 1..Len(mlog.queries) : ~mlog.queries[i].ret

C26_Witness ==
    /\ mlog.op = "input"
    /\ mlog.pending # None
    /\ menu.button_manager.just_clicked = None
    /\ \E i \in 1..Len(mlog.queries) : mlog.queries[i].ret
    /\ menu.last_action # "None"


\* C27: in every state reachable by start, pause, resume, stop, reset and update under
\* a monotonic clock, elapsed_paused is at most (paused_at if paused, else now) minus
\* start_time, so the Duration subtraction of get_remaining_time never underflows, and
\* the remaining time lies in [0, duration].
C27_NoUnderflow ==
    /\ timer.elapsed_paused <=
          (IF timer.paused_at # None THEN timer.paused_at[1] ELSE now) - timer.start_time
    /\ TimerElapsed(timer, now) >= 0
    /\ get_remaining_time(timer, now) >= 0
    /\ get_remaining_time(timer, now) <= timer.duration

\* A second pause after a pause / resume cycle, the timer still counting
C27_Witness ==
    /\ timer.is_running /\ ~timer.is_expired
    /\ timer.paused_at # None
    /\ timer.elapsed_paused > 0
    /\ timer.start_time > 0
    /\ get_remaining_time(timer, now) > 0
    /\ get_remaining_time(timer, now) < timer.duration


\* What update() is said to return: true exactly at the first call at which the
\* remaining time is zero while the timer runs and is not paused
UpdateReportsFirstExpiry ==
    tlog'.op = "update" =>
        /\ tlog'.ret = (/\ timer.is_running
                        /\ timer.paused_at = None
                        /\ ~timer.is_expired
                        /\ get_remaining_time(timer, now) = 0)
        /\ tlog'.ret => timer'.is_expired

\* Once latched, is_expired stays true and the remaining time reads zero until start()
\* or reset()
ExpiryLatched ==
    (timer.is_expired /\ tlog'.op \notin {"start", "reset"}) =>
        /\ timer'.is_expired
        /\ get_remaining_time(timer', now') = 0
        /\ ~tlog'.ret

\* C28: after start(), update() returns true on exactly one call, the first one at
\* which the remaining time is zero while running and not paused; from then on
\* is_expired stays true and get_remaining_time reads zero until start() or reset(),
\* and update() returns false whenever the timer is paused or not running.
C28_ExpiryLatchedOnce ==
    [][UpdateReportsFirstExpiry /\ ExpiryLatched]_vars

\* update() has just reported the expiry
C28_Witness ==
    /\ tlog.op = "update" /\ tlog.ret
    /\ timer.is_expired /\ timer.is_running
    /\ timer.elapsed_paused > 0
    /\ get_remaining_time(timer, now) = 0


(***************************************************************************)
(* AddSpec: a ButtonManager that starts empty and receives add_button      *)
(* calls, with ids that repeat.  mlog records the widget passed to the     *)
(* last call.                                                              *)
(***************************************************************************)

AddIds == {"resume", "restart", "debug"}

\* The widgets passed to add_button: two labels and two styles for every id
AddButtons ==
    {with_style(Button_new(id, text), style) :
        id \in AddIds,
        text \in {"Resume Game", "Quit App"},
        style \in {create_primary_button_style,
                   [create_warning_button_style EXCEPT !.spacing = Wrap]}}

AddInit ==
    /\ probe = None
    /\ texts = None /\ xlog = None
    /\ app = None /\ alog = None
    /\ rr = None /\ ir = None /\ rlog = None
    /\ timer = None /\ now = 0 /\ tlog = None
    /\ menu = [kind |-> "manager",
               button_manager |-> ButtonManager_new([width |-> 1360, height |-> 756],
                                                    {"HankenGrotesk"}, {"blank_icon"}),
               visible |-> TRUE,
               last_action |-> "None",
               show_debug_panel |-> FALSE]
    /\ mlog = [op |-> "new", button |-> None]

\* ButtonManager::add_button
AddButton ==
    \E button \in AddButtons :
        /\ menu' = [menu EXCEPT !.button_manager = add_button(@, button)]
        /\ mlog' = [op |-> "add_button", button |-> Some(button)]
        /\ UNCHANGED <<pureVars, rendVars, timerVars, textVars, appVars>>

AddNext == AddButton

AddSpec == AddInit /\ [][AddNext]_vars

\* button_order has no duplicate id and holds exactly the keys of the buttons map
OrderMatchesButtons(m) ==
    /\ \A i, j \in 1..Len(m.button_order) :
          m.button_order[i] = m.button_order[j] => i = j
    /\ {m.button_order[i] : i \in 1..Len(m.button_order)} = DOMAIN m.buttons

\* The widget stored under the id of the one passed to add_button is the one passed
\* (with the size add_button computes), and every other widget is untouched
StoredIsAdded(before, after, button) ==
    /\ [after.buttons[button.id] EXCEPT !.position.width = button.position.width,
                                        !.position.height = button.position.height]
          = button
    /\ \A id \in DOMAIN before.buttons \ {button.id} :
          after.buttons[id] = before.buttons[id]

\* C29: after any sequence of add_button calls, button_order contains no duplicate id
\* and its set of ids equals the key set of the buttons map; adding a widget whose id
\* already exists replaces the stored widget and keeps the position its id first
\* obtained in button_order, and a new id goes to the end.
C29_OrderAndIdentity ==
    [][/\ OrderMatchesButtons(menu'.button_manager)
       /\ StoredIsAdded(menu.button_manager, menu'.button_manager, mlog'.button[1])
       /\ menu'.button_manager.button_order =
             IF mlog'.button[1].id \in DOMAIN menu.button_manager.buttons
             THEN menu.button_manager.button_order
             ELSE Append(menu.button_manager.button_order, mlog'.button[1].id)]_vars

\* A widget has been replaced under an id that is not the last of three in the order
C29_Witness ==
    /\ mlog.op = "add_button"
    /\ Len(menu.button_manager.button_order) = 3
    /\ menu.button_manager.button_order[1] = mlog.button[1].id
    /\ menu.button_manager.buttons[mlog.button[1].id].text = "Quit App"
    /\ menu.button_manager.buttons[menu.button_manager.button_order[3]].text
          = "Resume Game"


\* C30: after PauseMenu::show(is_test_mode) the label displayed for the
\* toggle_test_mode widget, the content of its text buffer button_toggle_test_mode,
\* is "Exit Test Mode" or "Enter Test Mode" as show() set the widget's text field:
\* the text field and the displayed buffer content agree.
C30_ToggleLabelShown ==
    (menu.kind = "pause" /\ menu.visible) =>
        LET button == menu.button_manager.buttons["toggle_test_mode"]
            text_buffer == menu.button_manager.text_renderer.text_buffers[button.text_id]
        IN  /\ button.text \in {"Exit Test Mode", "Enter Test Mode"}
            /\ text_buffer.text_content = button.text
            /\ text_buffer.buffer.text = button.text

=============================================================================
